---- MODULE Spec2Model ----
(***************************************************************************)
(* A model of the screening logic of stock_analizer: the Buy/Sell signal   *)
(* evaluator, the Stage 2 trend template, the Golden Cross detector and    *)
(* the Bora EMA-trend scan.                                                 *)
(*                                                                         *)
(* Numbers.  Prices and volumes are integers.  A pandas NaN is the value   *)
(* NaN below, and every comparison is made through Lt/Le/Gt/Ge, which are  *)
(* false as soon as one side is NaN, as IEEE comparisons are.  Products    *)
(* with a fractional factor (1.2, 1 + proximity, 0.75, ...) are compared   *)
(* after multiplying both sides by the factor's denominator, i.e. in exact *)
(* arithmetic; the rounding of binary floating point is not modelled.      *)
(***************************************************************************)
EXTENDS Integers, Sequences, FiniteSets, TLC

VARIABLES
    row,      \* Buy/Sell: the indicator values of the latest bar
    vol10,    \* Buy/Sell: 10-day volatility of the close, in basis points
    sig,      \* Buy/Sell: the Signal of the latest bar, "none" before evaluation
    hist,     \* the daily closes the provider holds for the ticker, oldest first
    cal,      \* the calendar of the bars: "daily" or "weekdays" (no weekend bars)
    s2,       \* Stage 2: outcome of check_trend_template, "none" before evaluation
    gc,       \* Golden Cross: result of detect_golden_cross and its clock
    bcfg,     \* Bora: the arguments of the call to scan_symbols
    bdata,    \* Bora: per symbol, the closes the provider returns (<<>>: none)
    btask,    \* Bora: per symbol, the position or result of scan_single_symbol
    bfetched, \* Bora: the symbols for which a fetch was issued
    bret,     \* Bora: the state of the call to scan_symbols and its picks
    cin,      \* CANSLIM: what the providers return for SPY and for each ticker
    cfetched, \* CANSLIM: the per-ticker requests issued, as <<kind, ticker>>
    ctask,    \* CANSLIM: per ticker, the result of screen_ticker_with_df_fast
    cret,     \* CANSLIM: the state of the call to canslim_screen and its rows
    arg,      \* a function called on its own: its arguments
    res,      \* a function called on its own: <<>> before the call, then <<result>>
    qkind,    \* batch scan: which scan runs ("bora", "golden", "stage2", "canslim")
    qresp,    \* batch scan: per instrument, the provider's response to the request
    qtask,    \* batch scan: per instrument, the position or result of its task
    qret,     \* batch scan: the state of the call and the instruments returned
    clock,    \* caches: time.time(), in seconds since the process started
    kticks,   \* caches: how many times the clock has advanced
    polygon_cache, \* caches: ticker -> [data, ts], the entries of polygon_cache
    finance_cache, \* caches: ticker -> [data, ts], the entries of finance_cache
    kcall,    \* caches: the call of a caching fetch function in progress or last made
    thr,      \* income batch: per ticker, the worker thread running fetch_yfinance_income_stmt
    tmain,    \* income batch: the call of batch_fetch_yfinance_income_stmts and its results
    dbnow,    \* store: datetime.now() as [date, time], the time in whole seconds
    tables,   \* store: per screen, the rows of its table as [id, symbol, data_date, data_time]
    job,      \* store: per screen, the run_and_store_* run in progress
    runlog,   \* store: per screen, the runs that ended, oldest first
    reply,    \* store: the response of the last read endpoint called
    sem,      \* golden cross: the value of the semaphore of golden_cross_strategy
    gtask,    \* golden cross: per ticker, the position of its screen_golden_cross call
    pcall,    \* polygon batch: the call of fetch_polygon_data_batch, its groups and fetches
    sp500_tickers,   \* trends: the ticker list of trending_stocks.py
    price_change,    \* trends: per ticker, its price change over the period, in percent
    trending_stocks, \* trends: the rows of the trending_stocks table
    trend,           \* trends: the analyze_trends call in progress and the calls that ended
    sp500_cache,     \* ticker list: the entry of the TTLCache under "tickers", <<>> without one
    timer,           \* ticker list: the timer of the TTLCache, in seconds
    sticks,          \* ticker list: how many times the timer has advanced
    spcall           \* ticker list: the call of get_sp500_tickers in progress or last made

sigVars == <<row, vol10, sig>>
seriesVars == <<hist, cal, s2, gc>>
boraVars == <<bcfg, bdata, btask, bfetched, bret>>
canVars == <<cin, cfetched, ctask, cret>>
\* The evaluators of single series, and the components around them.
coreVars == <<sigVars, seriesVars, boraVars>>
pureVars == <<arg, res>>
batchVars == <<qkind, qresp, qtask, qret>>
cacheVars == <<clock, kticks, polygon_cache, finance_cache, kcall>>
thrVars == <<thr, tmain>>
dbVars == <<dbnow, tables, job, runlog, reply>>
semVars == <<sem, gtask>>
grpVars == <<pcall>>
trdVars == <<sp500_tickers, price_change, trending_stocks, trend>>
spVars == <<sp500_cache, timer, sticks, spcall>>
extVars == <<canVars, pureVars, batchVars, cacheVars, thrVars, dbVars, semVars, grpVars, trdVars, spVars>>
\* What a step of one component leaves alone.
canRest == <<coreVars, pureVars, batchVars, cacheVars, thrVars, dbVars, semVars, grpVars, trdVars, spVars>>
pureRest == <<coreVars, canVars, batchVars, cacheVars, thrVars, dbVars, semVars, grpVars, trdVars, spVars>>
batchRest == <<coreVars, canVars, pureVars, cacheVars, thrVars, dbVars, semVars, grpVars, trdVars, spVars>>
cacheRest == <<coreVars, canVars, pureVars, batchVars, thrVars, dbVars, semVars, grpVars, trdVars, spVars>>
thrRest == <<coreVars, canVars, pureVars, batchVars, dbVars, semVars, grpVars, trdVars, spVars>>
dbRest == <<coreVars, canVars, pureVars, batchVars, cacheVars, thrVars, semVars, grpVars, trdVars, spVars>>
semRest == <<coreVars, canVars, pureVars, batchVars, cacheVars, thrVars, dbVars, grpVars, trdVars, spVars>>
grpRest == <<coreVars, canVars, pureVars, batchVars, thrVars, dbVars, semVars, trdVars, spVars>>
trdRest == <<coreVars, canVars, pureVars, batchVars, cacheVars, thrVars, dbVars, semVars, grpVars, spVars>>
spRest == <<coreVars, canVars, pureVars, batchVars, cacheVars, thrVars, dbVars, semVars, grpVars, trdVars>>
vars == <<row, vol10, sig, hist, cal, s2, gc, bcfg, bdata, btask, bfetched, bret,
          cin, cfetched, ctask, cret, arg, res, qkind, qresp, qtask, qret,
          clock, kticks, polygon_cache, finance_cache, kcall, thr, tmain,
          dbnow, tables, job, runlog, reply,
          sem, gtask,
          pcall,
          sp500_tickers, price_change, trending_stocks, trend,
          sp500_cache, timer, sticks, spcall>>

(***************************************************************************)
(* NaN and IEEE comparisons                                                *)
(***************************************************************************)
NaN == -1000000

notna(x) == x # NaN

Lt(a, b) == notna(a) /\ notna(b) /\ a < b
Le(a, b) == notna(a) /\ notna(b) /\ a <= b
Gt(a, b) == notna(a) /\ notna(b) /\ a > b
Ge(a, b) == notna(a) /\ notna(b) /\ a >= b

\* Python truthiness of a float: only 0.0 is falsy (NaN is truthy).
Truthy(x) == x # 0

(***************************************************************************)
(* Buy/Sell evaluator: src/buy_sell_signal.py                              *)
(***************************************************************************)
\* Proximity is kept in units of 1/20000 (half a basis point).
ProxScale == 20000
\* 0.02 in those units.
ProxCap == 400

\* vol is data['Close'].pct_change().rolling(window=10).std().iloc[-1] in
\* basis points (1/10000), or NaN.  Python's min(0.02, x) returns 0.02 unless
\* x < 0.02, so a NaN volatility yields 0.02.
proximity_percentage(vol) ==
    IF notna(vol) /\ 3 * vol < ProxCap THEN 3 * vol ELSE ProxCap

rsi_buy_threshold == 30
rsi_sell_threshold == 65

\* Variants of check_signal, each with one slip, used to test the claims.
\* rsi >= threshold instead of rsi > threshold.
check_signal_rsiGe(r, prox) ==
    IF Truthy(r.ma200) /\ Lt(r.close, r.ma200) THEN "Hold"
    ELSE IF notna(r.avg_volume) /\ 10 * r.volume < 12 * r.avg_volume THEN "Hold"
    ELSE IF /\ notna(r.close) /\ notna(r.lower) /\ notna(r.rsi)
            /\ r.close * ProxScale <= r.lower * (ProxScale + prox)
            /\ r.rsi >= rsi_buy_threshold
            /\ Lt(r.k, 20)
            /\ Gt(r.close, r.psar)
         THEN "Buy"
    ELSE IF /\ notna(r.close) /\ notna(r.upper) /\ notna(r.rsi)
            /\ notna(r.macd) /\ notna(r.signal_line)
            /\ r.close * ProxScale >= r.upper * (ProxScale - prox)
            /\ r.rsi < rsi_sell_threshold + 5
            /\ \/ r.macd < r.signal_line
               \/ (Gt(r.k, 80) /\ Lt(r.close, r.psar))
         THEN "Sell"
    ELSE "Hold"

\* An undefined %K is read as 0 (a fillna(0) before the comparison).
check_signal_fillna(r, prox) ==
    IF Truthy(r.ma200) /\ Lt(r.close, r.ma200) THEN "Hold"
    ELSE IF notna(r.avg_volume) /\ 10 * r.volume < 12 * r.avg_volume THEN "Hold"
    ELSE IF /\ notna(r.close) /\ notna(r.lower) /\ notna(r.rsi)
            /\ r.close * ProxScale <= r.lower * (ProxScale + prox)
            /\ r.rsi > rsi_buy_threshold
            /\ (IF notna(r.k) THEN r.k ELSE 0) < 20
            /\ Gt(r.close, r.psar)
         THEN "Buy"
    ELSE IF /\ notna(r.close) /\ notna(r.upper) /\ notna(r.rsi)
            /\ notna(r.macd) /\ notna(r.signal_line)
            /\ r.close * ProxScale >= r.upper * (ProxScale - prox)
            /\ r.rsi < rsi_sell_threshold + 5
            /\ \/ r.macd < r.signal_line
               \/ (Gt(r.k, 80) /\ Lt(r.close, r.psar))
         THEN "Sell"
    ELSE "Hold"

\* price < lower band * (1 + proximity) instead of <=.
check_signal_strictBand(r, prox) ==
    IF Truthy(r.ma200) /\ Lt(r.close, r.ma200) THEN "Hold"
    ELSE IF notna(r.avg_volume) /\ 10 * r.volume < 12 * r.avg_volume THEN "Hold"
    ELSE IF /\ notna(r.close) /\ notna(r.lower) /\ notna(r.rsi)
            /\ r.close * ProxScale < r.lower * (ProxScale + prox)
            /\ r.rsi > rsi_buy_threshold
            /\ Lt(r.k, 20)
            /\ Gt(r.close, r.psar)
         THEN "Buy"
    ELSE IF /\ notna(r.close) /\ notna(r.upper) /\ notna(r.rsi)
            /\ notna(r.macd) /\ notna(r.signal_line)
            /\ r.close * ProxScale >= r.upper * (ProxScale - prox)
            /\ r.rsi < rsi_sell_threshold + 5
            /\ \/ r.macd < r.signal_line
               \/ (Gt(r.k, 80) /\ Lt(r.close, r.psar))
         THEN "Sell"
    ELSE "Hold"

\* check_signal(row) with the enclosing proximity_percentage.
check_signal(r, prox) ==
    IF Truthy(r.ma200) /\ Lt(r.close, r.ma200) THEN "Hold"
    ELSE IF notna(r.avg_volume) /\ 10 * r.volume < 12 * r.avg_volume THEN "Hold"
    ELSE IF /\ notna(r.close) /\ notna(r.lower) /\ notna(r.rsi)
            /\ r.close * ProxScale <= r.lower * (ProxScale + prox)
            /\ r.rsi > rsi_buy_threshold
            /\ Lt(r.k, 20)
            /\ Gt(r.close, r.psar)
         THEN "Buy"
    ELSE IF /\ notna(r.close) /\ notna(r.upper) /\ notna(r.rsi)
            /\ notna(r.macd) /\ notna(r.signal_line)
            /\ r.close * ProxScale >= r.upper * (ProxScale - prox)
            /\ r.rsi < rsi_sell_threshold + 5
            /\ \/ r.macd < r.signal_line
               \/ (Gt(r.k, 80) /\ Lt(r.close, r.psar))
         THEN "Sell"
    ELSE "Hold"

\* The values the indicators of the latest bar are drawn from.
Closes == {100}
Lowers == {NaN, 99, 100}
Uppers == {NaN, 100, 101}
Rsis == {NaN, 25, 30, 35, 70}
Ks == {NaN, 15, 20, 80, 85}
Psars == {NaN, 95, 100, 105}
MacdPairs == {<<NaN, 1>>, <<1, NaN>>, <<0, 1>>, <<1, 1>>, <<2, 1>>}
Ma200s == {NaN, 90, 100, 110}
VolumePairs == {<<NaN, 15>>, <<10, 11>>, <<10, 12>>, <<10, 15>>}
Vol10s == {NaN, 0, 66, 200}

SigInit ==
    /\ \E c \in Closes, lo \in Lowers, up \in Uppers, rs \in Rsis, kk \in Ks,
          ps \in Psars, mp \in MacdPairs, ma \in Ma200s, vp \in VolumePairs :
          row = [close |-> c, lower |-> lo, upper |-> up, rsi |-> rs, k |-> kk,
                 psar |-> ps, macd |-> mp[1], signal_line |-> mp[2],
                 ma200 |-> ma, avg_volume |-> vp[1], volume |-> vp[2]]
    /\ vol10 \in Vol10s
    /\ sig = "none"

\* signal_strategy: data['Signal'] = data.apply(check_signal), read at the latest bar.
signal_strategy ==
    /\ sig = "none"
    /\ sig' = check_signal(row, proximity_percentage(vol10))
    /\ UNCHANGED <<row, vol10>>

SigIdle ==
    /\ row = [close |-> 100, lower |-> NaN, upper |-> NaN, rsi |-> NaN, k |-> NaN,
              psar |-> NaN, macd |-> NaN, signal_line |-> NaN,
              ma200 |-> NaN, avg_volume |-> NaN, volume |-> 0]
    /\ vol10 = NaN
    /\ sig = "none"

\* No Bora scan is running.
BoraNoCall == [st |-> "idle", picks |-> {}]

BoraIdle ==
    /\ bcfg = [method |-> "slope", lookback |-> 10,
               slope_thresh |-> [num |-> 0, den |-> 1],
               pct_thresh |-> [num |-> 1, den |-> 1]]
    /\ bdata = <<>>
    /\ btask = <<>>
    /\ bfetched = {}
    /\ bret = BoraNoCall

\* No CANSLIM screen is running.
CanNoCall == [st |-> "idle", rows |-> {}]

CanIdle ==
    /\ cin = <<>>
    /\ cfetched = {}
    /\ ctask = <<>>
    /\ cret = CanNoCall

\* No function is being called on its own.
PureIdle ==
    /\ arg = <<>>
    /\ res = <<>>

\* No batch scan is running.
BatchNoCall == [st |-> "idle", picks |-> {}]

BatchIdle ==
    /\ qkind = "bora"
    /\ qresp = <<>>
    /\ qtask = <<>>
    /\ qret = BatchNoCall

\* No caching fetch function is being called.
CacheNoCall ==
    [n |-> 0, fn |-> "none", st |-> "idle", tickers |-> {}, now |-> 0, before |-> <<>>,
     fetched |-> {}, results |-> <<>>, raised |-> FALSE]

\* The process has just started: both caches are empty.
CacheIdle ==
    /\ clock = 0
    /\ kticks = 0
    /\ polygon_cache = <<>>
    /\ finance_cache = <<>>
    /\ kcall = CacheNoCall

\* The components outside the single-series evaluators are at rest.
ThrNoCall == [st |-> "idle", tickers |-> {}, before |-> <<>>, results |-> <<>>]

ThrIdle ==
    /\ thr = <<>>
    /\ tmain = ThrNoCall

Screens == {"canslim", "bora", "golden", "stage2", "option"}

DbNoJob == [st |-> "idle", stamp |-> <<>>, pending |-> {}, results |-> {}]

DbNoRead == [screen |-> "none", error |-> FALSE, today |-> 0, time |-> 0,
             rows |-> {}, log |-> <<>>]

DbIdle ==
    /\ dbnow = [date |-> 0, time |-> 0]
    /\ tables = [k \in Screens |-> {}]
    /\ job = [k \in Screens |-> DbNoJob]
    /\ runlog = [k \in Screens |-> <<>>]
    /\ reply = DbNoRead

SemIdle ==
    /\ sem = 0
    /\ gtask = <<>>

GrpNoCall == [st |-> "idle", tickers |-> <<>>, batch_size |-> 0, now |-> 0,
              before |-> <<>>, uncached |-> <<>>, i |-> 0, flight |-> <<>>,
              results |-> <<>>]

GrpIdle == pcall = GrpNoCall

TrdNoRun == [st |-> "idle", trend_type |-> "", i |-> 0, made |-> <<>>,
             last |-> <<>>, trending |-> {}, failed_tickers |-> <<>>,
             ret |-> <<>>, now |-> 0, seq |-> 0, fails |-> 0, log |-> <<>>]

TrdIdle ==
    /\ sp500_tickers = <<>>
    /\ price_change = <<>>
    /\ trending_stocks = {}
    /\ trend = TrdNoRun

SpNoCall == [st |-> "idle", with_sector |-> FALSE, check |-> <<>>, read |-> <<>>,
             fetched |-> <<>>, ret |-> <<>>, raised |-> "", n |-> 0]

SpIdle ==
    /\ sp500_cache = <<>>
    /\ timer = 0
    /\ sticks = 0
    /\ spcall = SpNoCall

ExtIdle == CanIdle /\ PureIdle /\ BatchIdle /\ CacheIdle /\ ThrIdle /\ DbIdle /\ SemIdle /\ GrpIdle /\ TrdIdle /\ SpIdle

(***************************************************************************)
(* Price series and rolling windows                                        *)
(***************************************************************************)
RECURSIVE SumRange(_, _, _)
\* s[lo] + ... + s[hi], summed by halves to keep the evaluation shallow.
SumRange(s, lo, hi) ==
    IF lo > hi THEN 0
    ELSE IF lo = hi THEN s[lo]
    ELSE LET mid == (lo + hi) \div 2
         IN SumRange(s, lo, mid) + SumRange(s, mid + 1, hi)

\* w times s.rolling(window=w).mean() at bar i (1-based): the sum of the w
\* closes ending at bar i, NaN while the window is not full.
RollSum(s, w, i) == IF i < w \/ i > Len(s) THEN NaN ELSE SumRange(s, i - w + 1, i)

\* mean a/wa > mean b/wb, False when a mean is NaN.
MeanGt(a, wa, b, wb) == notna(a) /\ notna(b) /\ a * wb > b * wa

RECURSIVE MinRange(_, _, _)
\* The least of s[lo..hi], by halves.
MinRange(s, lo, hi) ==
    IF lo = hi THEN s[lo]
    ELSE LET mid == (lo + hi) \div 2
             a == MinRange(s, lo, mid)
             b == MinRange(s, mid + 1, hi)
         IN IF a <= b THEN a ELSE b

RECURSIVE MaxRange(_, _, _)
\* The greatest of s[lo..hi], by halves.
MaxRange(s, lo, hi) ==
    IF lo = hi THEN s[lo]
    ELSE LET mid == (lo + hi) \div 2
             a == MaxRange(s, lo, mid)
             b == MaxRange(s, mid + 1, hi)
         IN IF a >= b THEN a ELSE b

SeqMin(s) == MinRange(s, 1, Len(s))
SeqMax(s) == MaxRange(s, 1, Len(s))

\* n closes starting at a, each d above the one before.
Ramp(n, a, d) == [i \in 1..n |-> a + (i - 1) * d]

(***************************************************************************)
(* Stage 2 trend template: src/stage2.py                                   *)
(***************************************************************************)
RsiWindow == 14

\* data.diff() with delta.where(delta > 0, 0): the first delta is NaN and
\* becomes 0 in both the gain and the loss series.
Delta(s, i) == IF i = 1 THEN 0 ELSE s[i] - s[i - 1]
Gain(s, i) == IF Delta(s, i) > 0 THEN Delta(s, i) ELSE 0
Loss(s, i) == IF Delta(s, i) < 0 THEN 0 - Delta(s, i) ELSE 0

RECURSIVE GainSum(_, _, _)
GainSum(s, lo, hi) == IF lo > hi THEN 0 ELSE Gain(s, hi) + GainSum(s, lo, hi - 1)
RECURSIVE LossSum(_, _, _)
LossSum(s, lo, hi) == IF lo > hi THEN 0 ELSE Loss(s, hi) + LossSum(s, lo, hi - 1)

\* calculate_rsi with 0/0 read as the neutral value 50.
calculate_rsi_neutral(s, i) ==
    IF i < RsiWindow THEN [num |-> NaN, den |-> 1]
    ELSE LET g == GainSum(s, i - RsiWindow + 1, i)
             l == LossSum(s, i - RsiWindow + 1, i)
         IN IF g + l = 0 THEN [num |-> 50, den |-> 1]
            ELSE [num |-> 100 * g, den |-> g + l]

\* calculate_rsi at bar i, as the fraction num/den = 100 - 100/(1 + rs) with
\* rs = gain/loss: 100*gain/(gain + loss).  A zero loss with a positive gain
\* gives rs = inf and RSI 100; gain = loss = 0 gives 0/0 = NaN.
calculate_rsi(s, i) ==
    IF i < RsiWindow THEN [num |-> NaN, den |-> 1]
    ELSE LET g == GainSum(s, i - RsiWindow + 1, i)
             l == LossSum(s, i - RsiWindow + 1, i)
         IN IF g + l = 0 THEN [num |-> NaN, den |-> 1]
            ELSE [num |-> 100 * g, den |-> g + l]

\* check_trend_template without the 200-SMA gate (step 3 left out).
check_trend_template_noGate3(s) ==
    IF s = <<>> THEN "NoData"
    ELSE
    LET n == Len(s)
        close == s[n]
        ma50 == RollSum(s, 50, n)
        ma150 == RollSum(s, 150, n)
        ma200 == RollSum(s, 200, n)
        rsi == calculate_rsi(s, n)
    IN  IF ma50 = NaN \/ ma150 = NaN \/ ma200 = NaN \/ rsi.num = NaN THEN "Missing"
        ELSE IF ~(MeanGt(close, 1, ma150, 150) /\ MeanGt(close, 1, ma200, 200)) THEN "Gate1"
        ELSE IF ~MeanGt(ma150, 150, ma200, 200) THEN "Gate2"
        ELSE IF ~(MeanGt(ma50, 50, ma150, 150) /\ MeanGt(ma50, 50, ma200, 200)) THEN "Gate4"
        ELSE IF ~MeanGt(close, 1, ma50, 50) THEN "Gate5"
        ELSE IF ~(10 * close >= 13 * SeqMin(s)) THEN "Gate6"
        ELSE IF ~(100 * close >= 75 * SeqMax(s)) THEN "Gate7"
        ELSE IF rsi.num < 70 * rsi.den THEN "Gate8"
        ELSE "Pass"

\* check_trend_template(ticker) on the fetched closes s.  The value names the
\* return taken: "NoData" (no history), "Missing" (an undefined average or
\* RSI), "GateK" (step K failed, the message the script prints), "Pass" (True).
check_trend_template(s) ==
    IF s = <<>> THEN "NoData"
    ELSE
    LET n == Len(s)
        close == s[n]
        ma50 == RollSum(s, 50, n)
        ma150 == RollSum(s, 150, n)
        ma200 == RollSum(s, 200, n)
        rsi == calculate_rsi(s, n)
    IN  IF ma50 = NaN \/ ma150 = NaN \/ ma200 = NaN \/ rsi.num = NaN THEN "Missing"
        ELSE IF ~(MeanGt(close, 1, ma150, 150) /\ MeanGt(close, 1, ma200, 200)) THEN "Gate1"
        ELSE IF ~MeanGt(ma150, 150, ma200, 200) THEN "Gate2"
        \* hist['200_MA'].iloc[-1] > hist['200_MA'].iloc[-5]
        ELSE IF ~MeanGt(RollSum(s, 200, n), 200, RollSum(s, 200, n - 4), 200) THEN "Gate3"
        ELSE IF ~(MeanGt(ma50, 50, ma150, 150) /\ MeanGt(ma50, 50, ma200, 200)) THEN "Gate4"
        ELSE IF ~MeanGt(close, 1, ma50, 50) THEN "Gate5"
        ELSE IF ~(10 * close >= 13 * SeqMin(s)) THEN "Gate6"
        ELSE IF ~(100 * close >= 75 * SeqMax(s)) THEN "Gate7"
        ELSE IF rsi.num < 70 * rsi.den THEN "Gate8"
        ELSE "Pass"

\* The most bars the provider adds to a starting series.
MaxTail == 5

\* Day-over-day changes of the close of an added bar.
S2Deltas == {1, -6, -40}

\* Starting series: no data; fewer than 200 bars; steady rises from a low and
\* from a high base; a steady fall; a flat series; a rise after one early
\* spike (moderate and large); a fall followed by a sharp recovery; a rise
\* with a dip inside the last 50 bars.
S2Prefixes ==
    { <<>>,
      Ramp(199, 100, 1),
      Ramp(200, 100, 1),
      Ramp(200, 1000, 1),
      Ramp(200, 500, -1),
      Ramp(200, 100, 0),
      <<400>> \o Ramp(199, 101, 1),
      <<2000>> \o Ramp(199, 101, 1),
      Ramp(150, 400, -2) \o Ramp(50, 102, 6),
      Ramp(150, 100, 2) \o Ramp(45, 300, -2) \o Ramp(5, 400, 1) }

GCNone == [done |-> FALSE, res |-> FALSE, now |-> 0]

S2Init ==
    /\ hist \in S2Prefixes
    /\ cal = "weekdays"
    /\ s2 = "none"
    /\ gc = GCNone

SeriesIdle ==
    /\ hist = <<>>
    /\ cal = "weekdays"
    /\ s2 = "none"
    /\ gc = GCNone

\* The evaluators of single series are at rest.
CoreIdle == SigIdle /\ SeriesIdle /\ BoraIdle

\* The provider publishes the next daily bar.
AppendBar(D, maxLen) ==
    /\ hist # <<>>
    /\ Len(hist) < maxLen
    /\ \E d \in D :
          /\ hist[Len(hist)] + d > 0
          /\ hist' = Append(hist, hist[Len(hist)] + d)
    /\ s2' = "none"
    /\ gc' = GCNone
    /\ UNCHANGED <<cal>>
    /\ UNCHANGED sigVars
    /\ UNCHANGED boraVars
    /\ UNCHANGED extVars

S2AppendBar == AppendBar(S2Deltas, 200 + MaxTail)

\* One screening of the ticker: fetch the history and apply the template.
CheckTrendTemplate ==
    /\ s2 = "none"
    /\ s2' = check_trend_template(hist)
    /\ UNCHANGED <<hist, cal, gc>>
    /\ UNCHANGED sigVars
    /\ UNCHANGED boraVars
    /\ UNCHANGED extVars

S2Next == S2AppendBar \/ CheckTrendTemplate

InitStage2 == S2Init /\ SigIdle /\ BoraIdle /\ ExtIdle

SpecStage2 == InitStage2 /\ [][S2Next]_vars

(***************************************************************************)
(* Golden Cross: src/stock_analizer/app/strategies/golden_cross_strategy.py*)
(***************************************************************************)
\* Times are in hours.  Bar i of the series is the i-th trading day: with the
\* "daily" calendar every day has a bar, with "weekdays" five bars are
\* followed by two days without one.
Day(c, i) == IF c = "daily" THEN i ELSE i + 2 * (i \div 5)

\* Hour of the day of a bar's timestamp (pd.to_datetime(df['t'], unit='ms')):
\* the provider stamps a daily bar with the start of its session day.
BarHour == 4

BarTime(c, i) == 24 * Day(c, i) + BarHour

\* timedelta(days=14), the window of the older script golden_cross.py.
CutoffHours14 == 14 * 24

\* timedelta(days=7)
CutoffHours == 7 * 24

\* df["Signal"] from rolling sums s50 (50 closes) and s200 (200 closes).
Signal(s50, s200) == IF MeanGt(s50, 50, s200, 200) THEN 1 ELSE 0

RECURSIVE SignalsFrom(_, _, _, _)
\* df["Signal"] of the bars i..Len(s), given the rolling sums s50 and s200 of
\* bar i; the sums of the next bar take in its close and drop the close that
\* leaves the window.
SignalsFrom(s, i, s50, s200) ==
    <<Signal(s50, s200)>> \o
        (IF i = Len(s) THEN <<>>
         ELSE SignalsFrom(s, i + 1, s50 + s[i + 1] - s[i - 49], s200 + s[i + 1] - s[i - 199]))

\* df["Signal"] after dropna(subset=["MA50", "MA200"]): the bars from 200 on;
\* element j belongs to bar 199 + j.
Signals(s) == SignalsFrom(s, 200, RollSum(s, 50, 200), RollSum(s, 200, 200))

\* The bars with df["Cross"] == 1; diff() is NaN on the first bar kept, and
\* no bar is kept of a series shorter than 200.
CrossRows(s) ==
    IF Len(s) < 200 THEN {}
    ELSE LET sg == Signals(s)
         IN {199 + j : j \in {j \in 2..Len(sg) : sg[j] - sg[j - 1] = 1}}

\* detect_golden_cross with diff() read as 0 -> Signal on the first bar kept.
detect_golden_cross_firstRow(s, c, now) ==
    IF Len(s) < 200 THEN FALSE
    ELSE LET cutoff == now - CutoffHours
             crossed == CrossRows(s) \cup {i \in {200} : Signals(s)[1] = 1}
         IN \E i \in crossed : BarTime(c, i) >= cutoff

\* detect_golden_cross(df) called at clock time now, on closes s with calendar c.
detect_golden_cross(s, c, now) ==
    IF Len(s) < 200 THEN FALSE
    ELSE LET cutoff == now - CutoffHours
         IN \E i \in CrossRows(s) : BarTime(c, i) >= cutoff

\* The most bars the provider adds in the Golden Cross runs.
MaxGCTail == 9

GCDeltas == {1, -1}

\* Hours of the day at which the screen runs.
NowHours == {4, 12}

\* The screen runs on the day of the latest bar or up to MaxDelay days later.
MaxDelay == 1

GCPrefixes == {Ramp(199, 100, 0), Ramp(200, 100, 0)}

GCInit ==
    /\ hist \in GCPrefixes
    /\ cal \in {"daily", "weekdays"}
    /\ s2 = "none"
    /\ gc = GCNone

GCAppendBar == AppendBar(GCDeltas, 200 + MaxGCTail)

\* screen_golden_cross: fetch the history and detect, at some time of the day
\* of the latest bar or of a later day.
DetectGoldenCross ==
    /\ ~gc.done
    /\ hist # <<>>
    /\ \E h \in NowHours, dl \in 0..MaxDelay :
          LET now == 24 * (Day(cal, Len(hist)) + dl) + h
          IN gc' = [done |-> TRUE, res |-> detect_golden_cross(hist, cal, now), now |-> now]
    /\ UNCHANGED <<hist, cal, s2>>
    /\ UNCHANGED sigVars
    /\ UNCHANGED boraVars
    /\ UNCHANGED extVars

GCNext == GCAppendBar \/ DetectGoldenCross

InitGolden == GCInit /\ SigIdle /\ BoraIdle /\ ExtIdle

SpecGolden == InitGolden /\ [][GCNext]_vars

(***************************************************************************)
(* Both screens on rising series                                           *)
(***************************************************************************)
\* The most bars the provider adds to a rising series.
MaxRiseTail == 4

\* Changes of the close of an added bar: a rise and a fall.
RiseDeltas == {3, -1}

\* Starting series: rises of one and of three a day, from a low and from a
\* high base, with fewer than 200 bars and with more.
RisePrefixes ==
    { Ramp(199, 100, 1), Ramp(201, 1, 1), Ramp(201, 1000, 3) }

RiseInit ==
    /\ hist \in RisePrefixes
    /\ cal \in {"daily", "weekdays"}
    /\ s2 = "none"
    /\ gc = GCNone

RiseAppendBar == AppendBar(RiseDeltas, 200 + MaxRiseTail)

RiseNext == RiseAppendBar \/ CheckTrendTemplate \/ DetectGoldenCross

InitRising == RiseInit /\ SigIdle /\ BoraIdle /\ ExtIdle

SpecRising == InitRising /\ [][RiseNext]_vars

(***************************************************************************)
(* Bora EMA-trend scan: src/stock_analizer/app/strategies/bora_strategy.py *)
(***************************************************************************)
\* The averages of the scan are exact fractions [num, den] with den > 0; the
\* rounding of binary floating point is not modelled.
RECURSIVE FracGt(_, _, _, _)
\* a/b > c/d for a, c >= 0 and b, d > 0: by the integer parts, and when these
\* are equal by the remainders, r/b > q/d being d/q > b/r.
FracGt(a, b, c, d) ==
    LET qa == a \div b
        qc == c \div d
        ra == a % b
        rc == c % d
    IN IF qa # qc THEN qa > qc
       ELSE IF ra = 0 THEN FALSE
       ELSE IF rc = 0 THEN TRUE
       ELSE FracGt(d, rc, b, ra)

\* The last bar of the leading run of equal closes.
FlatLen(s) ==
    LET ch == {i \in 1..(Len(s) - 1) : s[i + 1] # s[i]}
    IN IF ch = {} THEN Len(s) ELSE CHOOSE i \in ch : \A j \in ch : i <= j

RECURSIVE EwmFrom(_, _, _, _)
\* The values of ewm(span=span, adjust=False).mean() from bar i on, y being
\* the value at bar i: y_t = (1 - a) * y_(t-1) + a * x_t with a = 2/(span + 1).
EwmFrom(s, span, i, y) ==
    <<y>> \o
        (IF i >= Len(s) THEN <<>>
         ELSE EwmFrom(s, span, i + 1,
                      [num |-> (span - 1) * y.num + 2 * s[i + 1] * y.den,
                       den |-> (span + 1) * y.den]))

\* df["close"].ewm(span=span, adjust=False).mean(): y_1 = x_1, then the
\* recurrence.  Over a leading run of equal closes the recurrence leaves y at
\* that close, so the values are computed from the last bar of the run, bar
\* `first`; vals[j] is the value at bar first + j - 1.
ewm(s, span) ==
    LET p == FlatLen(s)
    IN [first |-> p, vals |-> EwmFrom(s, span, p, [num |-> s[1], den |-> 1])]

\* The value of the average e of closes s at bar i.
EwmAt(e, s, i) ==
    IF i <= e.first THEN [num |-> s[1], den |-> 1] ELSE e.vals[i - e.first + 1]

\* The average at bar i as a multiple of 1/D, D the denominator at the latest bar.
EwmScaled(e, s, i) ==
    LET D == e.vals[Len(e.vals)].den
        y == EwmAt(e, s, i)
    IN y.num * (D \div y.den)

\* compute_indicators: SMA_200 of the latest bar as the sum of its 200 closes.
compute_indicators(s) ==
    [close |-> s,
     SMA_200 |-> RollSum(s, 200, Len(s)),
     EMA_21 |-> ewm(s, 21),
     EMA_50 |-> ewm(s, 50)]

\* The bars of series.iloc[-lookback:] for a series of n bars: the last
\* lookback bars (all of them when there are fewer); with lookback = 0 the
\* slice [-0:] is the whole series, and with a negative lookback the slice
\* [k:], k = -lookback, drops the first k bars.
RecentBars(n, lookback) ==
    IF lookback > 0 THEN (IF lookback >= n THEN 1 ELSE n - lookback + 1)..n
    ELSE (1 - lookback)..n

\* The least-squares slope of the points (x, ys[x + 1]/D), x = 0..Len(ys)-1,
\* is greater than t: slope = Sxy/Sxx with Sxy = sum (x - mean x) * y and
\* Sxx = sum (x - mean x)^2, here with 2 * (x - mean x) = 2x - (L - 1).
LsqSlopeGt(ys, D, t) ==
    LET L == Len(ys)
        c == [x \in 1..L |-> 2 * (x - 1) - (L - 1)]
        Sxy2 == SumRange([x \in 1..L |-> c[x] * ys[x]], 1, L)
        Sxx4 == SumRange([x \in 1..L |-> c[x] * c[x]], 1, L)
    IN 2 * Sxy2 * t.den > t.num * Sxx4 * D

\* (last/first - 1) * 100 > t, for first > 0.
PctGainGt(first, last, t) == 100 * (last - first) * t.den > t.num * first

\* ema21_trend_ok(df, lookback, method, slope_thresh, pct_thresh): "True",
\* "False", or the exception raised.  EMA_21 has no NaN, so dropna() keeps
\* every bar.
ema21_trend_ok(df, lookback, method, slope_thresh, pct_thresh) ==
    LET n == Len(df.close)
        recent == RecentBars(n, lookback)
        ys == [x \in 1..Cardinality(recent) |->
                  EwmScaled(df.EMA_21, df.close, n - Cardinality(recent) + x)]
        D == df.EMA_21.vals[Len(df.EMA_21.vals)].den
    IN IF Cardinality(recent) < lookback THEN "False"
       ELSE IF method = "slope" THEN
            \* x = np.arange(lookback) is empty for lookback <= 0 and
            \* np.polyfit raises "expected non-empty vector for x".
            IF lookback <= 0 THEN "TypeError"
            ELSE IF LsqSlopeGt(ys, D, slope_thresh) THEN "True" ELSE "False"
       ELSE IF method = "pct" THEN
            IF recent = {} THEN "IndexError"
            ELSE IF PctGainGt(ys[1], ys[Len(ys)], pct_thresh) THEN "True" ELSE "False"
       ELSE \* strict, and any other method
            IF \A x \in 2..Len(ys) : ys[x - 1] < ys[x] THEN "True" ELSE "False"

\* scan_single_symbol without the EMA_21 > EMA_50 filter.
scan_single_symbol_noEmaFilter(s, cfg) ==
    IF s = <<>> \/ Len(s) < 200 THEN "None"
    ELSE LET df == compute_indicators(s)
             price_last == s[Len(s)]
             ok == ema21_trend_ok(df, cfg.lookback, cfg.method,
                                  cfg.slope_thresh, cfg.pct_thresh)
         IN IF 200 * price_last <= df.SMA_200 THEN "None"
            ELSE IF ok = "False" THEN "None"
            ELSE IF ok = "True" THEN "Pick"
            ELSE "Error"

\* scan_single_symbol after the fetch returned closes s (<<>>: no data): "Pick"
\* (the symbol is returned), "None", or "Error" (an exception leaves the task).
scan_single_symbol(s, cfg) ==
    IF s = <<>> \/ Len(s) < 200 THEN "None"
    ELSE LET df == compute_indicators(s)
             price_last == s[Len(s)]
             ema21_last == EwmAt(df.EMA_21, s, Len(s))
             ema50_last == EwmAt(df.EMA_50, s, Len(s))
             ok == ema21_trend_ok(df, cfg.lookback, cfg.method,
                                  cfg.slope_thresh, cfg.pct_thresh)
         IN IF 200 * price_last <= df.SMA_200 THEN "None"
            ELSE IF ~FracGt(ema21_last.num, ema21_last.den,
                            ema50_last.num, ema50_last.den) THEN "None"
            ELSE IF ok = "False" THEN "None"
            ELSE IF ok = "True" THEN "Pick"
            ELSE "Error"

\* The most bars that follow the flat start of a scanned series.
MaxBoraTail == 3

\* The closes of the bars that follow the flat start.
BoraTailCloses == {17, 21, 23, 42}

BoraTails == UNION {[1..k -> BoraTailCloses] : k \in 0..MaxBoraTail}

\* The closes a fetch returns: nothing, or 198 or 200 bars at 20 and a tail.
BoraSeries ==
    {<<>>} \cup {Ramp(n, 20, 0) \o t : n \in {198, 200}, t \in BoraTails}

\* The few series of the scans over two symbols: no data, a flat series, and
\* a flat series with three rising bars.
BoraScanSeries == {<<>>, Ramp(200, 20, 0), Ramp(200, 20, 0) \o <<23, 23, 23>>}

\* slope_thresh and pct_thresh: the defaults 0.0 and 1.0, and 0.1 and 2.0.
BoraThresholds ==
    { [slope |-> [num |-> 0, den |-> 1], pct |-> [num |-> 1, den |-> 1]],
      [slope |-> [num |-> 1, den |-> 10], pct |-> [num |-> 2, den |-> 1]] }

BoraConfigs(methods, lookbacks, thresholds) ==
    { [method |-> m, lookback |-> lb, slope_thresh |-> th.slope, pct_thresh |-> th.pct] :
        m \in methods, lb \in lookbacks, th \in thresholds }

\* The documented methods and positive lookbacks.
BoraValidConfigs == BoraConfigs({"slope", "pct", "strict"}, {2, 3, 10, 250}, BoraThresholds)

\* Any string as method and any integer as lookback.
BoraAnyConfigs ==
    BoraConfigs({"slope", "pct", "strict", "bogus"}, {-3, 0, 3, 10},
                {th \in BoraThresholds : th.slope.num = 0})

BoraStart(symbols, configs, series) ==
    /\ bcfg \in configs
    /\ bdata \in [symbols -> series]
    /\ btask = [sym \in symbols |-> "new"]
    /\ bfetched = {}
    /\ bret = BoraNoCall

\* scan_symbols(symbols, ...) is called: the session is opened, one task per
\* symbol is created and gathered.  No argument is examined.
ScanSymbols ==
    /\ bret.st = "idle"
    /\ bret' = [st |-> "gathering", picks |-> {}]
    /\ UNCHANGED <<bcfg, bdata, btask, bfetched>>
    /\ UNCHANGED <<sigVars, seriesVars, extVars>>

\* A task runs scan_single_symbol up to its await: get_polygon_data issues
\* the request for the symbol.
BoraFetch ==
    /\ bret.st = "gathering"
    /\ \E sym \in DOMAIN btask :
          /\ btask[sym] = "new"
          /\ btask' = [btask EXCEPT ![sym] = "fetching"]
          /\ bfetched' = bfetched \cup {sym}
    /\ UNCHANGED <<bcfg, bdata, bret>>
    /\ UNCHANGED <<sigVars, seriesVars, extVars>>

\* The response arrived: the task runs scan_single_symbol to its end.
BoraScanSingle ==
    /\ bret.st = "gathering"
    /\ \E sym \in DOMAIN btask :
          /\ btask[sym] = "fetching"
          /\ btask' = [btask EXCEPT ![sym] = scan_single_symbol(bdata[sym], bcfg)]
    /\ UNCHANGED <<bcfg, bdata, bfetched, bret>>
    /\ UNCHANGED <<sigVars, seriesVars, extVars>>

\* asyncio.gather returns when every task has returned, or raises the first
\* exception of a task; scan_symbols returns picks = [r for r in results if r].
BoraReturn ==
    /\ bret.st = "gathering"
    /\ \/ /\ \E sym \in DOMAIN btask : btask[sym] = "Error"
          /\ bret' = [st |-> "raised", picks |-> {}]
       \/ /\ \A sym \in DOMAIN btask : btask[sym] \in {"None", "Pick"}
          /\ bret' = [st |-> "returned",
                      picks |-> {sym \in DOMAIN btask : btask[sym] = "Pick"}]
    /\ UNCHANGED <<bcfg, bdata, btask, bfetched>>
    /\ UNCHANGED <<sigVars, seriesVars, extVars>>

BoraNext == ScanSymbols \/ BoraFetch \/ BoraScanSingle \/ BoraReturn

\* A scan of one symbol with a documented configuration.
InitBora == BoraStart({"A"}, BoraValidConfigs, BoraSeries) /\ SigIdle /\ SeriesIdle /\ ExtIdle

SpecBora == InitBora /\ [][BoraNext]_vars

\* A scan of two symbols with any configuration.
InitBoraScan == BoraStart({"A", "B"}, BoraAnyConfigs, BoraScanSeries) /\ SigIdle /\ SeriesIdle /\ ExtIdle

SpecBoraScan == InitBoraScan /\ [][BoraNext]_vars

(***************************************************************************)
(* Specification of the Buy/Sell evaluator                                 *)
(***************************************************************************)
SigNext == signal_strategy /\ UNCHANGED seriesVars /\ UNCHANGED boraVars /\ UNCHANGED extVars

InitSignal == SigInit /\ SeriesIdle /\ BoraIdle /\ ExtIdle

SpecSignal == InitSignal /\ [][SigNext]_vars

(***************************************************************************)
(* CANSLIM screen: src/stock_analizer/app/strategies/canslim_strategy.py   *)
(*                                                                         *)
(* A price frame is a record [close, volume] of two series of one length;  *)
(* get_polygon_data returns None instead of an empty frame, and None is    *)
(* the frame whose series are empty.  Money is counted in millions of      *)
(* dollars.  A float that can be NaN or infinite is a record [k, num, den] *)
(* with k "nan", "inf", "ninf" or "num" (the value num/den, den > 0).      *)
(***************************************************************************)
FNan == [k |-> "nan", num |-> 0, den |-> 1]
FInf == [k |-> "inf", num |-> 0, den |-> 1]
FNegInf == [k |-> "ninf", num |-> 0, den |-> 1]
FNum(n, d) == [k |-> "num", num |-> n, den |-> d]

\* pd.isna(x)
isna(x) == x.k = "nan"

\* x >= c for a float x and an integer c: False for NaN, True for +inf.
FGe(x, c) == x.k = "inf" \/ (x.k = "num" /\ x.num >= c * x.den)

\* 2 * x >= 1, the comparison rs >= 0.5.
FGeHalf(x) == x.k = "inf" \/ (x.k = "num" /\ 2 * x.num >= x.den)

Abs(x) == IF x < 0 THEN 0 - x ELSE x

\* (latest - prior) / abs(prior) * 100 on numpy floats: a NaN operand gives
\* NaN, a zero prior gives +inf, -inf or (0/0) NaN.
GrowthPct(latest, prior) ==
    IF ~notna(latest) \/ ~notna(prior) THEN FNan
    ELSE IF prior = 0
         THEN (IF latest > 0 THEN FInf ELSE IF latest < 0 THEN FNegInf ELSE FNan)
    ELSE FNum(100 * (latest - prior), Abs(prior))

RECURSIVE SumSkipNa(_, _, _)
\* Series.sum() of s[lo..hi]: NaN entries are skipped.
SumSkipNa(s, lo, hi) ==
    IF lo > hi THEN 0
    ELSE (IF notna(s[hi]) THEN s[hi] ELSE 0) + SumSkipNa(s, lo, hi - 1)

\* No income statement (the fetch failed).
NoIncome == [kind |-> "None", ni |-> <<>>]

\* An income statement is [kind, ni]: kind "None", "NoRow" (a statement
\* without a "Net Income" row) or "Row"; ni is the Net Income row, the
\* latest column first.
quarterly_earnings_growth(income) ==
    IF income.kind # "Row" \/ Len(income.ni) < 2 THEN FNan
    ELSE GrowthPct(income.ni[1], income.ni[2])

annual_earnings_growth(income) ==
    IF income.kind # "Row" \/ Len(income.ni) < 4 THEN FNan
    ELSE LET net_income == income.ni
             latest_year == SumSkipNa(net_income, 1, 4)
         IN IF Len(net_income) >= 8
            THEN GrowthPct(latest_year, SumSkipNa(net_income, 5, 8))
            ELSE LET prior == IF Len(net_income) > 4 THEN net_income[5]
                              ELSE net_income[Len(net_income)]
                 IN IF prior # 0 THEN GrowthPct(latest_year, prior) ELSE FNan

\* Python's str.lower() on the letters A..Z.
LowerMap ==
    "A" :> "a" @@ "B" :> "b" @@ "C" :> "c" @@ "D" :> "d" @@ "E" :> "e" @@ "F" :> "f" @@ "G" :> "g" @@ "H" :> "h" @@ "I" :> "i" @@
    "J" :> "j" @@ "K" :> "k" @@ "L" :> "l" @@ "M" :> "m" @@ "N" :> "n" @@ "O" :> "o" @@ "P" :> "p" @@ "Q" :> "q" @@ "R" :> "r" @@
    "S" :> "s" @@ "T" :> "t" @@ "U" :> "u" @@ "V" :> "v" @@ "W" :> "w" @@ "X" :> "x" @@ "Y" :> "y" @@ "Z" :> "z"

Lower(c) == IF c \in DOMAIN LowerMap THEN LowerMap[c] ELSE c

\* A name is the sequence of its characters.
LowerStr(s) == [i \in 1..Len(s) |-> Lower(s[i])]

\* Python's "a in b" on strings.
IsSubstr(a, b) ==
    \E k \in 0..(Len(b) - Len(a)) : \A j \in 1..Len(a) : b[k + j] = a[j]

\* The list of institutional_holders, in its order ('Fundsmith' is in it twice).
reputable_names == <<
    \* Vanguard
    <<"V","a","n","g","u","a","r","d">>,
    \* Blackrock
    <<"B","l","a","c","k","r","o","c","k">>,
    \* State Street
    <<"S","t","a","t","e"," ","S","t","r","e","e","t">>,
    \* Fidelity
    <<"F","i","d","e","l","i","t","y">>,
    \* T. Rowe
    <<"T","."," ","R","o","w","e">>,
    \* Invesco
    <<"I","n","v","e","s","c","o">>,
    \* Morgan Stanley
    <<"M","o","r","g","a","n"," ","S","t","a","n","l","e","y">>,
    \* JPMORGAN
    <<"J","P","M","O","R","G","A","N">>,
    \* Bank of America
    <<"B","a","n","k"," ","o","f"," ","A","m","e","r","i","c","a">>,
    \* Wellington
    <<"W","e","l","l","i","n","g","t","o","n">>,
    \* Geode
    <<"G","e","o","d","e">>,
    \* Northern Trust
    <<"N","o","r","t","h","e","r","n"," ","T","r","u","s","t">>,
    \* Goldman Sachs
    <<"G","o","l","d","m","a","n"," ","S","a","c","h","s">>,
    \* UBS
    <<"U","B","S">>,
    \* Franklin
    <<"F","r","a","n","k","l","i","n">>,
    \* Charles Schwab
    <<"C","h","a","r","l","e","s"," ","S","c","h","w","a","b">>,
    \* Capital Group
    <<"C","a","p","i","t","a","l"," ","G","r","o","u","p">>,
    \* Dodge & Cox
    <<"D","o","d","g","e"," ","&"," ","C","o","x">>,
    \* Massachusetts Financial
    <<"M","a","s","s","a","c","h","u","s","e","t","t","s"," ","F","i","n","a","n","c","i","a","l">>,
    \* FMR
    <<"F","M","R">>,
    \* FIL LTD
    <<"F","I","L"," ","L","T","D">>,
    \* Price (T.Rowe)
    <<"P","r","i","c","e"," ","(","T",".","R","o","w","e",")">>,
    \* Ameriprise
    <<"A","m","e","r","i","p","r","i","s","e">>,
    \* Alliancebernstein
    <<"A","l","l","i","a","n","c","e","b","e","r","n","s","t","e","i","n">>,
    \* Fundsmith
    <<"F","u","n","d","s","m","i","t","h">>,
    \* NORGES BANK
    <<"N","O","R","G","E","S"," ","B","A","N","K">>,
    \* Cohen & Steers
    <<"C","o","h","e","n"," ","&"," ","S","t","e","e","r","s">>,
    \* Parnassus
    <<"P","a","r","n","a","s","s","u","s">>,
    \* Susquehanna
    <<"S","u","s","q","u","e","h","a","n","n","a">>,
    \* Victory Capital
    <<"V","i","c","t","o","r","y"," ","C","a","p","i","t","a","l">>,
    \* Apg Asset Management
    <<"A","p","g"," ","A","s","s","e","t"," ","M","a","n","a","g","e","m","e","n","t">>,
    \* Hotchkis & Wiley
    <<"H","o","t","c","h","k","i","s"," ","&"," ","W","i","l","e","y">>,
    \* Polen Capital
    <<"P","o","l","e","n"," ","C","a","p","i","t","a","l">>,
    \* Kayne Anderson
    <<"K","a","y","n","e"," ","A","n","d","e","r","s","o","n">>,
    \* Leonard Green
    <<"L","e","o","n","a","r","d"," ","G","r","e","e","n">>,
    \* Renaissance Technologies
    <<"R","e","n","a","i","s","s","a","n","c","e"," ","T","e","c","h","n","o","l","o","g","i","e","s">>,
    \* State Farm
    <<"S","t","a","t","e"," ","F","a","r","m">>,
    \* Aristotle Capital
    <<"A","r","i","s","t","o","t","l","e"," ","C","a","p","i","t","a","l">>,
    \* First Eagle
    <<"F","i","r","s","t"," ","E","a","g","l","e">>,
    \* Boston Partners
    <<"B","o","s","t","o","n"," ","P","a","r","t","n","e","r","s">>,
    \* Slate Path Capital
    <<"S","l","a","t","e"," ","P","a","t","h"," ","C","a","p","i","t","a","l">>,
    \* Durable Capital
    <<"D","u","r","a","b","l","e"," ","C","a","p","i","t","a","l">>,
    \* Artisan Partners
    <<"A","r","t","i","s","a","n"," ","P","a","r","t","n","e","r","s">>,
    \* Brown Advisory
    <<"B","r","o","w","n"," ","A","d","v","i","s","o","r","y">>,
    \* Barrow, Hanley
    <<"B","a","r","r","o","w",","," ","H","a","n","l","e","y">>,
    \* Harris Associates
    <<"H","a","r","r","i","s"," ","A","s","s","o","c","i","a","t","e","s">>,
    \* Primecap
    <<"P","r","i","m","e","c","a","p">>,
    \* Fundsmith
    <<"F","u","n","d","s","m","i","t","h">>,
    \* Impax Asset
    <<"I","m","p","a","x"," ","A","s","s","e","t">>,
    \* Pictet Asset
    <<"P","i","c","t","e","t"," ","A","s","s","e","t">>,
    \* Amundi
    <<"A","m","u","n","d","i">>,
    \* Royal Bank of Canada
    <<"R","o","y","a","l"," ","B","a","n","k"," ","o","f"," ","C","a","n","a","d","a">>,
    \* Bank Of New York Mellon
    <<"B","a","n","k"," ","O","f"," ","N","e","w"," ","Y","o","r","k"," ","M","e","l","l","o","n">>,
    \* Fundsmith Investment
    <<"F","u","n","d","s","m","i","t","h"," ","I","n","v","e","s","t","m","e","n","t">>,
    \* Fundsmith LLP
    <<"F","u","n","d","s","m","i","t","h"," ","L","L","P">>,
    \* Fundsmith Investment Services
    <<"F","u","n","d","s","m","i","t","h"," ","I","n","v","e","s","t","m","e","n","t"," ","S","e","r","v","i","c","e","s">>
>>

\* No holders table.
NoHolders == [kind |-> "None", rows |-> <<>>]

\* ticker_obj.institutional_holders is [kind, rows]: kind "None", "Table"
\* (a table with the columns Holder and Value) or "NoValue" (a table with
\* the column Holder only); rows are records [Holder, Value].
\* reputable_set collects the names OF THE LIST found in some holder name.
institutional_holders(holders) ==
    IF holders.kind = "Table"
    THEN LET reputable_set ==
                 { reputable_names[r] : r \in
                     { r \in DOMAIN reputable_names :
                         \E h \in DOMAIN holders.rows :
                            IsSubstr(LowerStr(reputable_names[r]),
                                     LowerStr(holders.rows[h].Holder)) } }
         IN [total_value |-> SumRange([h \in DOMAIN holders.rows |-> holders.rows[h].Value],
                                      1, Len(holders.rows)),
             reputable_count |-> Cardinality(reputable_set),
             reputable_names |-> reputable_set]
    ELSE IF holders.kind = "NoValue"
    THEN LET unique == { holders.rows[h].Holder : h \in DOMAIN holders.rows }
         IN [total_value |-> 0, reputable_count |-> Cardinality(unique),
             reputable_names |-> unique]
    ELSE [total_value |-> 0, reputable_count |-> 0, reputable_names |-> {}]

\* is_near_52w_high(df, threshold) with threshold = tn/td.
is_near_52w_high(df, tn, td) ==
    LET high_52 == SeqMax(df.close)
        last_close == df.close[Len(df.close)]
    IN td * last_close >= high_52 * tn

\* volume_spike: recent is the mean of the last window_short volumes, prior
\* the mean of the window_long - window_short volumes before them.  A zero
\* prior gives +inf (True) or 0/0 = NaN (False).
volume_spike(df, window_short, window_long, pct_increase) ==
    IF Len(df.volume) < window_long THEN FALSE
    ELSE LET n == Len(df.volume)
             recent == SumRange(df.volume, n - window_short + 1, n)
             head == window_long - window_short
             prior == SumRange(df.volume, n - window_long + 1, n - window_short)
         IN IF prior = 0 THEN recent > 0
            ELSE (recent * head - prior * window_short) * 100
                    >= pct_increase * prior * window_short

\* market_trend_ok with ma50 >= ma200.
market_trend_ok_ge(s) ==
    IF s = <<>> \/ Len(s) < 200 THEN FALSE
    ELSE LET a == RollSum(s, 50, Len(s))
             b == RollSum(s, 200, Len(s))
         IN a * 200 >= b * 50

\* market_trend_ok on the closes s the fetch of SPY returned (<<>>: None).
market_trend_ok(s) ==
    IF s = <<>> \/ Len(s) < 200 THEN FALSE
    ELSE MeanGt(RollSum(s, 50, Len(s)), 50, RollSum(s, 200, Len(s)), 200)

\* relative_strength(df_t, df_m, period_days): gain_t / gain_m, with
\* gain = close[-1] / close[-period_days] - 1; NaN when gain_m = 0.
relative_strength(t, m, period_days) ==
    IF t = <<>> \/ m = <<>> THEN FNan
    ELSE IF Len(t) < period_days \/ Len(m) < period_days THEN FNan
    ELSE LET ct == t[Len(t)]
             bt == t[Len(t) - period_days + 1]
             cm == m[Len(m)]
             bm == m[Len(m) - period_days + 1]
         IN IF cm = bm THEN FNan
            ELSE IF cm > bm THEN FNum((ct - bt) * bm, bt * (cm - bm))
            ELSE FNum((bt - ct) * bm, bt * (bm - cm))

\* total_value >= 1e9, in millions.
InstValueMin == 1000

\* screen_ticker_with_df_fast without the test of the relative strength.
screen_ticker_with_df_fast_noRs(market_df, df, income, holders) ==
    IF df.close = <<>> THEN "None"
    ELSE IF Len(df.close) < 200 THEN "None"
    ELSE LET q == quarterly_earnings_growth(income)
             y == annual_earnings_growth(income)
             near_52w == is_near_52w_high(df, 90, 100)
             vol == volume_spike(df, 20, 50, 15)
             holders_info == institutional_holders(holders)
         IN IF /\ FGe(q, 25)
               /\ (isna(y) \/ FGe(y, 25))
               /\ near_52w
               /\ vol
               /\ holders_info.total_value >= InstValueMin
               /\ holders_info.reputable_count >= 2
            THEN "Row" ELSE "None"

\* screen_ticker_with_df_fast: "Row" (the ticker's row is returned) or
\* "None".  A df of None raises at df.columns and is caught.
screen_ticker_with_df_fast(market_df, df, income, holders) ==
    IF df.close = <<>> THEN "None"
    ELSE IF Len(df.close) < 200 THEN "None"
    ELSE LET q == quarterly_earnings_growth(income)
             y == annual_earnings_growth(income)
             near_52w == is_near_52w_high(df, 90, 100)
             vol == volume_spike(df, 20, 50, 15)
             rs == relative_strength(df.close, market_df, 120)
             holders_info == institutional_holders(holders)
         IN IF /\ FGe(q, 25)
               /\ (isna(y) \/ FGe(y, 25))
               /\ near_52w
               /\ vol
               /\ FGeHalf(rs)
               /\ holders_info.total_value >= InstValueMin
               /\ holders_info.reputable_count >= 2
            THEN "Row" ELSE "None"

\* Holder names as yfinance reports them.
VanguardGroup == <<"V","a","n","g","u","a","r","d"," ","G","r","o","u","p"," ","I","n","c">>
BlackrockInc == <<"B","l","a","c","k","r","o","c","k"," ","I","n","c",".">>
AcmeCapital == <<"A","c","m","e"," ","C","a","p","i","t","a","l">>
FundsmithLLP == <<"F","U","N","D","S","M","I","T","H"," ","L","L","P">>

HoldersTable(rows) == [kind |-> "Table", rows |-> rows]

\* The holders of the screened tickers: none, two listed institutions above
\* and below $1B, one listed and one unlisted holder, and Fundsmith alone.
CanHolders ==
    { NoHolders,
      HoldersTable(<< [Holder |-> VanguardGroup, Value |-> 600],
                      [Holder |-> BlackrockInc, Value |-> 500] >>),
      HoldersTable(<< [Holder |-> VanguardGroup, Value |-> 600],
                      [Holder |-> BlackrockInc, Value |-> 300] >>),
      HoldersTable(<< [Holder |-> VanguardGroup, Value |-> 1200],
                      [Holder |-> AcmeCapital, Value |-> 5] >>),
      HoldersTable(<< [Holder |-> FundsmithLLP, Value |-> 1500] >>) }

IncomeRow(ni) == [kind |-> "Row", ni |-> ni]

\* Income statements: none, no Net Income row, and Net Income rows of 1, 2,
\* 5 and 8 columns around the 25% thresholds, with a zero and a NaN prior.
CanIncomes ==
    { NoIncome, [kind |-> "NoRow", ni |-> <<>>],
      IncomeRow(<<130>>),
      IncomeRow(<<125, 100>>), IncomeRow(<<124, 100>>),
      IncomeRow(<<100, 0>>), IncomeRow(<<130, NaN>>),
      IncomeRow(<<130, 100, 100, 100, 100>>),
      IncomeRow(<<130, 100, 10, 10, 250>>),
      IncomeRow(<<130, 100, 10, 10, 0>>),
      IncomeRow(<<130, 100, 100, 100, 100, 100, 100, 100>>) }

\* The last closes of a ticker after 199 bars rising from 100 to 298.
CanLastCloses == {299, 269, 268, 150}

\* The volumes of the last 20 bars, after bars of volume 20.
CanRecentVolumes == {20, 23}

NoDf == [close |-> <<>>, volume |-> <<>>]

\* The frames of a ticker: none, 199 bars, and 200 bars.
CanDfs ==
    { NoDf, [close |-> Ramp(199, 100, 1), volume |-> Ramp(179, 20, 0) \o Ramp(20, 23, 0)] }
    \cup { [close |-> Ramp(199, 100, 1) \o <<l>>,
            volume |-> Ramp(180, 20, 0) \o Ramp(20, v, 0)] :
           l \in CanLastCloses, v \in CanRecentVolumes }

\* The closes of SPY: none, 199 bars, falling, flat, rising, rising fast,
\* a step up with no and with a negative gain over the last 120 bars, and a
\* recovery after a fall (50-SMA below the 200-SMA, positive 120-bar gain).
CanMarkets ==
    { <<>>, Ramp(199, 100, 1), Ramp(200, 300, -1), Ramp(200, 100, 0),
      Ramp(200, 100, 1), Ramp(200, 100, 3),
      Ramp(80, 50, 0) \o Ramp(120, 100, 0),
      Ramp(80, 50, 0) \o <<120>> \o Ramp(119, 100, 0),
      Ramp(80, 300, 0) \o Ramp(120, 100, 1) }

CanTickers == {"A"}

\* The second fetch of SPY (market_df) returns what the first returned, or fails.
CanInputs ==
    { [market |-> m, market_df |-> IF again THEN m ELSE <<>>,
       df |-> d, income |-> i, holders |-> h] :
        m \in CanMarkets, again \in BOOLEAN,
        d \in [CanTickers -> CanDfs], i \in [CanTickers -> CanIncomes],
        h \in [CanTickers -> CanHolders] }

\* The caches are empty: the process has just started.
CanStart(inputs) ==
    /\ cin \in inputs
    /\ cfetched = {}
    /\ ctask = [t \in DOMAIN cin.df |-> "new"]
    /\ cret = CanNoCall

\* canslim_screen(tickers) is called and awaits market_trend_ok, which
\* requests SPY.
CanslimScreen ==
    /\ cret.st = "idle"
    /\ cret' = [st |-> "market", rows |-> {}]
    /\ UNCHANGED <<cin, cfetched, ctask>>
    /\ UNCHANGED canRest

\* market_trend_ok returned.  Not in an up-trend: canslim_screen returns [].
\* Otherwise SPY is fetched again, fetch_polygon_data_batch requests every
\* ticker of the list and batch_fetch_yfinance_income_stmts every statement.
CanslimMarketTrend ==
    /\ cret.st = "market"
    /\ IF ~market_trend_ok(cin.market)
       THEN /\ cret' = [st |-> "returned", rows |-> {}]
            /\ UNCHANGED cfetched
       ELSE /\ cret' = [st |-> "screening", rows |-> {}]
            /\ cfetched' = cfetched \cup
                   { <<k, t>> : k \in {"price", "income"}, t \in DOMAIN ctask }
    /\ UNCHANGED <<cin, ctask>>
    /\ UNCHANGED canRest

\* One task of the gather runs screen_ticker_with_df_fast to its end; the
\* holders are requested once the frame has 200 bars.
CanslimScreenTicker ==
    /\ cret.st = "screening"
    /\ \E t \in DOMAIN ctask :
          /\ ctask[t] = "new"
          /\ ctask' = [ctask EXCEPT ![t] =
                 screen_ticker_with_df_fast(cin.market_df, cin.df[t],
                                            cin.income[t], cin.holders[t])]
          /\ cfetched' = IF Len(cin.df[t].close) >= 200
                         THEN cfetched \cup {<<"holders", t>>} ELSE cfetched
    /\ UNCHANGED <<cin, cret>>
    /\ UNCHANGED canRest

\* The gather returned: canslim_screen returns [r for r in results if r].
CanslimReturn ==
    /\ cret.st = "screening"
    /\ \A t \in DOMAIN ctask : ctask[t] # "new"
    /\ cret' = [st |-> "returned", rows |-> {t \in DOMAIN ctask : ctask[t] = "Row"}]
    /\ UNCHANGED <<cin, cfetched, ctask>>
    /\ UNCHANGED canRest

CanNext == CanslimScreen \/ CanslimMarketTrend \/ CanslimScreenTicker \/ CanslimReturn

InitCanslim == CanStart(CanInputs) /\ CoreIdle /\ PureIdle /\ BatchIdle /\ CacheIdle /\ ThrIdle /\ DbIdle /\ SemIdle /\ GrpIdle /\ TrdIdle /\ SpIdle

SpecCanslim == InitCanslim /\ [][CanNext]_vars

(***************************************************************************)
(* institutional_holders called on its own                                 *)
(***************************************************************************)
VanguardIndex == <<"V","a","n","g","u","a","r","d"," ","I","n","d","e","x"," ","F","u","n","d","s">>
FmrLlc == <<"F","M","R",","," ","L","L","C">>

\* The most rows of a holders table.
MaxHolders == 2

HolderNames == {VanguardGroup, VanguardIndex, BlackrockInc, FmrLlc, AcmeCapital, FundsmithLLP}

\* Values of one holding, in millions of dollars.
HolderValues == {400, 600, 1500}

HolderRows == [Holder : HolderNames, Value : HolderValues]

\* ticker_obj.institutional_holders: None, or a table of up to MaxHolders
\* rows with or without the Value column.
HoldersInputs ==
    {NoHolders} \cup
    { [kind |-> k, rows |-> r] :
        k \in {"Table", "NoValue"},
        r \in UNION {[1..n -> HolderRows] : n \in 0..MaxHolders} }

HoldersInit ==
    /\ arg \in HoldersInputs
    /\ res = <<>>

\* institutional_holders(ticker_obj) is called.
InstitutionalHolders ==
    /\ res = <<>>
    /\ res' = <<institutional_holders(arg)>>
    /\ UNCHANGED arg
    /\ UNCHANGED pureRest

InitHolders == HoldersInit /\ CoreIdle /\ CanIdle /\ BatchIdle /\ CacheIdle /\ ThrIdle /\ DbIdle /\ SemIdle /\ GrpIdle /\ TrdIdle /\ SpIdle

SpecHolders == InitHolders /\ [][InstitutionalHolders]_vars

(***************************************************************************)
(* volume_spike called on its own                                          *)
(***************************************************************************)
\* The most bars before the last 50.
MaxVolPrefix == 1

\* The volume of the bars before the last 20, and of the last 20.
VolPriors == {50, 100}
VolRecents == {50, 100, 110, 115, 116, 120, 130, 140}

\* pct_increase: 15 in canslim_strategy, 30 by default.
VolPcts == {15, 30}

\* Frames of 49 bars and more: bars of volume 500, then 29 or 30 bars of one
\* volume and the last 20 bars of another.
VolumeInputs ==
    { [df |-> [close |-> Ramp(k + n + 20, 100, 0),
               volume |-> Ramp(k, 500, 0) \o Ramp(n, p, 0) \o Ramp(20, r, 0)],
       pct |-> pct] :
        k \in 0..MaxVolPrefix, n \in {29, 30},
        p \in VolPriors, r \in VolRecents, pct \in VolPcts }

VolumeInit ==
    /\ arg \in VolumeInputs
    /\ res = <<>>

\* volume_spike(df, pct_increase=pct) is called with the default windows.
VolumeSpike ==
    /\ res = <<>>
    /\ res' = <<volume_spike(arg.df, 20, 50, arg.pct)>>
    /\ UNCHANGED arg
    /\ UNCHANGED pureRest

InitVolume == VolumeInit /\ CoreIdle /\ CanIdle /\ BatchIdle /\ CacheIdle /\ ThrIdle /\ DbIdle /\ SemIdle /\ GrpIdle /\ TrdIdle /\ SpIdle

SpecVolume == InitVolume /\ [][VolumeSpike]_vars

(***************************************************************************)
(* LEAP option signals:                                                    *)
(* src/stock_analizer/app/strategies/leap_option_strategy1.py and          *)
(* src/stock_analizer/app/strategies/leap_option_stategy2.py               *)
(***************************************************************************)
\* qqq.history(period='<n>d') on the daily bars h the provider holds: the
\* last n bars, or all of them when there are fewer.
history(h, n) == IF Len(h) <= n THEN h ELSE SubSeq(h, Len(h) - n + 1, Len(h))

\* The period requested by get_qqq_leap_signal, in days.
LeapPeriod == 130

\* rolling(window=252, min_periods=1).max().iloc[-1] is the greatest of the
\* last 252 closes of the frame, or of all of them when there are fewer.
is_bull_market(close) ==
    LET n == Len(close)
        high_52w == MaxRange(close, IF n > 252 THEN n - 251 ELSE 1, n)
    IN 10 * close[n] >= 8 * high_52w

\* get_qqq_leap_signal on the closes h the provider holds for QQQ: "Signal"
\* (the dict) or "None".
get_qqq_leap_signal(h) ==
    LET close == history(h, LeapPeriod)
        n == Len(close)
    IN IF close = <<>> \/ n < 100 THEN "None"
       ELSE LET pct_down == 100 * (close[n] - close[n - 1]) <= 0 - close[n - 1]
                above_100sma == 100 * close[n] > SumRange(close, n - 99, n)
                bull == is_bull_market(close)
            IN IF pct_down /\ above_100sma /\ bull THEN "Signal" ELSE "None"

\* The bars that precede the recent ones in the longest histories.
LeapOldBars == 122

\* The closes of the recent bars before the last two, the last two closes,
\* and the closes of the older bars.
LeapBases == {150, 250}
LeapLastTwo == {<<200, 198>>, <<200, 199>>, <<200, 197>>, <<160, 158>>}
LeapOldCloses == {150, 200, 260}

\* The closes the provider holds: 99, 100 or 130 recent bars, alone or
\* after LeapOldBars older bars.
LeapHistories ==
    { o \o Ramp(n, b, 0) \o l :
        o \in {<<>>} \cup {Ramp(LeapOldBars, c, 0) : c \in LeapOldCloses},
        n \in {97, 98, 128}, b \in LeapBases, l \in LeapLastTwo }

LeapInit ==
    /\ arg \in LeapHistories
    /\ res = <<>>

\* get_qqq_leap_signal() is called: it fetches the history and evaluates it.
GetQqqLeapSignal ==
    /\ res = <<>>
    /\ res' = <<get_qqq_leap_signal(arg)>>
    /\ UNCHANGED arg
    /\ UNCHANGED pureRest

InitLeap == LeapInit /\ CoreIdle /\ CanIdle /\ BatchIdle /\ CacheIdle /\ ThrIdle /\ DbIdle /\ SemIdle /\ GrpIdle /\ TrdIdle /\ SpIdle

SpecLeap == InitLeap /\ [][GetQqqLeapSignal]_vars

\* The period requested by get_qqq_gap_down_leap_signal, in days.
GapPeriod == 3

\* get_qqq_gap_down_leap_signal with gap_pct < -0.02.
get_qqq_gap_down_leap_signal_strict(h) ==
    LET df == history(h, GapPeriod)
        n == Len(df)
    IN IF df = <<>> \/ n < 2 THEN "None"
       ELSE LET prev_close == df[n - 1].close
                today_open == df[n].open
            IN IF notna(today_open) /\ 50 * (today_open - prev_close) < 0 - prev_close
               THEN "Signal" ELSE "None"

\* get_qqq_gap_down_leap_signal on the bars h ([open, close]) the provider
\* holds for QQQ: "Signal" (the dict) or "None".  A NaN open gives a NaN
\* gap_pct, which is not <= -0.02.
get_qqq_gap_down_leap_signal(h) ==
    LET df == history(h, GapPeriod)
        n == Len(df)
    IN IF df = <<>> \/ n < 2 THEN "None"
       ELSE LET prev_close == df[n - 1].close
                today_open == df[n].open
            IN IF notna(today_open) /\ 50 * (today_open - prev_close) <= 0 - prev_close
               THEN "Signal" ELSE "None"

\* The most bars the provider holds for the gap-down signal.
MaxGapBars == 3

GapBars == [open : {NaN, 49, 50, 97, 98, 99}, close : {50, 100}]

GapHistories == UNION {[1..n -> GapBars] : n \in 0..MaxGapBars}

GapInit ==
    /\ arg \in GapHistories
    /\ res = <<>>

\* get_qqq_gap_down_leap_signal() is called: it fetches the last bars and
\* evaluates them.
GetQqqGapDownLeapSignal ==
    /\ res = <<>>
    /\ res' = <<get_qqq_gap_down_leap_signal(arg)>>
    /\ UNCHANGED arg
    /\ UNCHANGED pureRest

InitGap == GapInit /\ CoreIdle /\ CanIdle /\ BatchIdle /\ CacheIdle /\ ThrIdle /\ DbIdle /\ SemIdle /\ GrpIdle /\ TrdIdle /\ SpIdle

SpecGap == InitGap /\ [][GetQqqGapDownLeapSignal]_vars

(***************************************************************************)
(* The batch scans and the failures of a fetch:                            *)
(* scan_symbols, golden_cross_strategy, canslim_screen and /stage_2        *)
(***************************************************************************)
\* What the provider answers to the request for one instrument: "ok" (HTTP
\* 200 with bars), "http" (another status), "empty" (HTTP 200 without
\* results), "timeout", or "raise" (the connection or the decoding raises).
Outcomes == {"ok", "http", "empty", "timeout", "raise"}

\* get_polygon_data without its except clause: a timeout or an exception
\* leaves the function.
get_polygon_data_noExcept(resp) ==
    IF resp.outcome = "ok" THEN [raised |-> FALSE, df |-> resp.df]
    ELSE IF resp.outcome \in {"http", "empty"} THEN [raised |-> FALSE, df |-> NoDf]
    ELSE [raised |-> TRUE, df |-> NoDf]

\* get_polygon_data (app/services/polygon.py, and its copy in stage2.py):
\* the frame, or None after printing the error; nothing is raised.
get_polygon_data(resp) ==
    IF resp.outcome = "ok" THEN [raised |-> FALSE, df |-> resp.df]
    ELSE [raised |-> FALSE, df |-> NoDf]

\* The defaults of scan_symbols.
BoraDefaults ==
    [method |-> "slope", lookback |-> 10,
     slope_thresh |-> [num |-> 0, den |-> 1], pct_thresh |-> [num |-> 1, den |-> 1]]

\* The batch scans run at noon of the day of the latest bar.
BatchNow(s) == BarTime("daily", Len(s)) + 8

\* During the batch scans SPY rises, and the income statement and the
\* holders of every instrument pass the CANSLIM tests.
BatchMarket == Ramp(200, 100, 1)
BatchIncome == IncomeRow(<<125, 100>>)
BatchHolders == HoldersTable(<< [Holder |-> VanguardGroup, Value |-> 600],
                               [Holder |-> BlackrockInc, Value |-> 500] >>)

\* The task of one instrument in the scan of the given kind, from the
\* request to its end: "Pick" (the instrument is returned), "None", or
\* "Error" (an exception leaves the task).  Only screen_golden_cross wraps
\* the fetch in a try.
BatchTask(kind, resp) ==
    LET r == get_polygon_data(resp)
    IN IF kind = "golden"
       THEN IF r.raised \/ r.df.close = <<>> THEN "None"
            ELSE IF detect_golden_cross(r.df.close, "daily", BatchNow(r.df.close))
                 THEN "Pick" ELSE "None"
       ELSE IF r.raised THEN "Error"
       ELSE IF kind = "bora" THEN scan_single_symbol(r.df.close, BoraDefaults)
       ELSE IF kind = "stage2"
       THEN IF check_trend_template(r.df.close) = "Pass" THEN "Pick" ELSE "None"
       ELSE IF screen_ticker_with_df_fast(BatchMarket, r.df, BatchIncome,
                                          BatchHolders) = "Row"
            THEN "Pick" ELSE "None"

Spike(n) == Ramp(n - 20, 20, 0) \o Ramp(20, 23, 0)

\* The closes the provider holds: a flat series, a short one, and series
\* that pass the scan (for the Bora scan, series with a flat start); the
\* volume of the last 20 bars is 15% up.
BatchCloses(kind) ==
    IF kind = "bora"
    THEN { Ramp(200, 20, 0) \o <<23, 23, 23>>, Ramp(200, 20, 0), Ramp(150, 20, 0) }
    ELSE { Ramp(200, 100, 0) \o <<101>>, Ramp(204, 100, 1), Ramp(200, 100, 0),
           Ramp(150, 100, 1) }

\* A failed request carries no frame.
BatchResponses(kind) ==
    { [outcome |-> "ok", df |-> [close |-> c, volume |-> Spike(Len(c))]] :
        c \in BatchCloses(kind) }
    \cup { [outcome |-> o, df |-> NoDf] : o \in Outcomes \ {"ok"} }

BatchInstruments == {"A", "B"}

BatchKinds == {"bora", "golden", "stage2", "canslim"}

BatchInit ==
    /\ qkind \in BatchKinds
    /\ qresp \in [BatchInstruments -> BatchResponses(qkind)]
    /\ qtask = [t \in BatchInstruments |-> "new"]
    /\ qret = BatchNoCall

\* The scan is called: one task per instrument is created and gathered.
BatchScan ==
    /\ qret.st = "idle"
    /\ qret' = [st |-> "gathering", picks |-> {}]
    /\ UNCHANGED <<qkind, qresp, qtask>>
    /\ UNCHANGED batchRest

\* A task runs up to its await: the request for the instrument is issued.
BatchRequest ==
    /\ qret.st = "gathering"
    /\ \E t \in DOMAIN qtask :
          /\ qtask[t] = "new"
          /\ qtask' = [qtask EXCEPT ![t] = "fetching"]
    /\ UNCHANGED <<qkind, qresp, qret>>
    /\ UNCHANGED batchRest

\* The response (or the failure) arrived: the task runs to its end.
BatchTaskEnd ==
    /\ qret.st = "gathering"
    /\ \E t \in DOMAIN qtask :
          /\ qtask[t] = "fetching"
          /\ qtask' = [qtask EXCEPT ![t] = BatchTask(qkind, qresp[t])]
    /\ UNCHANGED <<qkind, qresp, qret>>
    /\ UNCHANGED batchRest

\* asyncio.gather raises the first exception of a task, or returns when all
\* tasks have returned; the scan returns the instruments that are not None.
BatchReturn ==
    /\ qret.st = "gathering"
    /\ IF \E t \in DOMAIN qtask : qtask[t] = "Error"
       THEN qret' = [st |-> "raised", picks |-> {}]
       ELSE /\ \A t \in DOMAIN qtask : qtask[t] \in {"None", "Pick"}
            /\ qret' = [st |-> "returned",
                        picks |-> {t \in DOMAIN qtask : qtask[t] = "Pick"}]
    /\ UNCHANGED <<qkind, qresp, qtask>>
    /\ UNCHANGED batchRest

BatchNext == BatchScan \/ BatchRequest \/ BatchTaskEnd \/ BatchReturn

InitBatch == BatchInit /\ CoreIdle /\ CanIdle /\ PureIdle /\ CacheIdle /\ ThrIdle /\ DbIdle /\ SemIdle /\ GrpIdle /\ TrdIdle /\ SpIdle

SpecBatch == InitBatch /\ [][BatchNext]_vars

(***************************************************************************)
(* The raw-data caches: polygon_cache and finance_cache of                 *)
(* src/stock_analizer/app/strategies/canslim_strategy.py (the same code    *)
(* is in src/stock_analizer/app/services/polygon.py)                       *)
(*                                                                         *)
(* A cache is a function from the cached tickers to [data, ts].  The data  *)
(* of a successful fetch is named by its ticker and the time of the fetch, *)
(* so that what was fetched for different tickers or at different times    *)
(* differs; NoneVal is Python's None.                                      *)
(***************************************************************************)
\* What a provider returned for a ticker at a time.
Statement(ticker, at) == [of |-> ticker, at |-> at]

NoneVal == [of |-> "None", at |-> 0]

CACHE_TTL == 60 * 10

\* The cache test with now - ts <= CACHE_TTL.
CacheFreshLe(cache, ticker, now) ==
    ticker \in DOMAIN cache /\ now - cache[ticker].ts <= CACHE_TTL

\* ticker in cache and now - cache[ticker][1] < CACHE_TTL
CacheFresh(cache, ticker, now) ==
    ticker \in DOMAIN cache /\ now - cache[ticker].ts < CACHE_TTL

\* A store that keeps no other entry of the cache.
CachePutOnly(cache, ticker, data, ts) ==
    [t \in {ticker} |-> [data |-> data, ts |-> ts]]

\* cache[ticker] = (data, ts)
CachePut(cache, ticker, data, ts) ==
    [t \in DOMAIN cache \cup {ticker} |->
        IF t = ticker THEN [data |-> data, ts |-> ts] ELSE cache[t]]

\* A store of the gathered results that leaves out the failed fetches.
PolygonStoreFrames(cache, fetched, data, ts) ==
    [t \in DOMAIN cache \cup {u \in fetched : data[u] # NoneVal} |->
        IF t \in fetched /\ data[t] # NoneVal THEN [data |-> data[t], ts |-> ts]
        ELSE cache[t]]

\* for ticker, data in zip(uncached, fetched):
\*     polygon_cache[ticker] = (data, time.time())
PolygonStore(cache, fetched, data, ts) ==
    [t \in DOMAIN cache \cup fetched |->
        IF t \in fetched THEN [data |-> data[t], ts |-> ts] ELSE cache[t]]

\* How often the clock advances in a run.
MaxTicks == 3

\* How many calls of the caching fetch functions are made in a run.
MaxCalls == 2

\* The seconds by which the clock advances at once.
Ticks == {1, 599, 600}

CacheTickers == {"A", "B"}

\* Time passes, between two calls or while a fetch is awaited.
Tick ==
    /\ kticks < MaxTicks
    /\ \E d \in Ticks : clock' = clock + d
    /\ kticks' = kticks + 1
    /\ UNCHANGED <<polygon_cache, finance_cache, kcall>>
    /\ UNCHANGED cacheRest

\* fetch_polygon_data_batch(tickers, ...) is called and runs up to its first
\* await: now is read once, the fresh entries are copied into results and
\* the fetch function is called for every other ticker.  With nothing to
\* fetch the call returns at once.
FetchPolygonDataBatch ==
    /\ kcall.st \in {"idle", "done"}
    /\ kcall.n < MaxCalls
    /\ \E tickers \in {{"A"}, CacheTickers} :
          LET now == clock
              cached == {t \in tickers : CacheFresh(polygon_cache, t, now)}
              uncached == tickers \ cached
          IN kcall' = [n |-> kcall.n + 1, fn |-> "polygon",
                       st |-> IF uncached = {} THEN "done" ELSE "fetching",
                       tickers |-> tickers, now |-> now, before |-> polygon_cache,
                       fetched |-> uncached,
                       results |-> [t \in cached |-> polygon_cache[t].data],
                       raised |-> FALSE]
    /\ UNCHANGED <<clock, kticks, polygon_cache, finance_cache>>
    /\ UNCHANGED cacheRest

\* The gather of the fetches returned: every fetched ticker, with frame or
\* with None, is stored with the time of the store and added to results.
PolygonBatchGathered ==
    /\ kcall.fn = "polygon" /\ kcall.st = "fetching"
    /\ \E ok \in [kcall.fetched -> BOOLEAN] :
          LET data == [t \in kcall.fetched |->
                          IF ok[t] THEN Statement(t, clock) ELSE NoneVal]
          IN /\ polygon_cache' = PolygonStore(polygon_cache, kcall.fetched, data, clock)
             /\ kcall' = [kcall EXCEPT
                    !.st = "done",
                    !.results = [t \in kcall.tickers |->
                        IF t \in kcall.fetched THEN data[t] ELSE kcall.results[t]]]
    /\ UNCHANGED <<clock, kticks, finance_cache>>
    /\ UNCHANGED cacheRest

\* fetch_yfinance_income_stmt(ticker) is called: a fresh entry is returned,
\* otherwise the statement is requested from yfinance.
FetchYfinanceIncomeStmt ==
    /\ kcall.st \in {"idle", "done"}
    /\ kcall.n < MaxCalls
    /\ \E ticker \in {"A"} :
          LET now == clock
              fresh == CacheFresh(finance_cache, ticker, now)
          IN kcall' = [n |-> kcall.n + 1, fn |-> "yfinance",
                       st |-> IF fresh THEN "done" ELSE "fetching",
                       tickers |-> {ticker}, now |-> now, before |-> finance_cache,
                       fetched |-> IF fresh THEN {} ELSE {ticker},
                       results |-> IF fresh
                                   THEN [t \in {ticker} |-> finance_cache[t].data]
                                   ELSE <<>>,
                       raised |-> FALSE]
    /\ UNCHANGED <<clock, kticks, polygon_cache, finance_cache>>
    /\ UNCHANGED cacheRest

\* yfinance answered: the statement is stored with the time of the store and
\* returned; or it raised: None is returned and nothing is stored.
YfinanceAnswered ==
    /\ kcall.fn = "yfinance" /\ kcall.st = "fetching"
    /\ \E ok \in BOOLEAN :
          IF ok
          THEN /\ finance_cache' =
                      LET ticker == CHOOSE t \in kcall.tickers : TRUE
                      IN CachePut(finance_cache, ticker, Statement(ticker, clock), clock)
               /\ kcall' = [kcall EXCEPT !.st = "done",
                               !.results = [t \in kcall.tickers |-> Statement(t, clock)]]
          ELSE /\ finance_cache' = finance_cache
               /\ kcall' = [kcall EXCEPT !.st = "done", !.raised = TRUE,
                               !.results = [t \in kcall.tickers |-> NoneVal]]
    /\ UNCHANGED <<clock, kticks, polygon_cache>>
    /\ UNCHANGED cacheRest

CacheNext ==
    \/ Tick
    \/ FetchPolygonDataBatch
    \/ PolygonBatchGathered
    \/ FetchYfinanceIncomeStmt
    \/ YfinanceAnswered

InitCache == CacheIdle /\ CoreIdle /\ CanIdle /\ PureIdle /\ BatchIdle /\ ThrIdle /\ DbIdle /\ SemIdle /\ GrpIdle /\ TrdIdle /\ SpIdle

SpecCache == InitCache /\ [][CacheNext]_vars

(***************************************************************************)
(* Income statements in worker threads: canslim_strategy.py                *)
(* batch_fetch_yfinance_income_stmts submits one call of                   *)
(* fetch_yfinance_income_stmt per ticker to a thread pool; the threads     *)
(* share finance_cache and the clock.  A thread is interleaved with the    *)
(* others between any two of its statements; one read or one store of a    *)
(* dict entry is a single step of the interpreter.                         *)
(***************************************************************************)
ThrTickers == {"A", "B"}

\* finance_cache when the batch is called: empty, or holding what an
\* earlier call stored for A at time 0.
ThrCaches ==
    {<<>>, CachePut(<<>>, "A", Statement("A", 0), 0)}

ThrInit ==
    /\ clock = 0
    /\ kticks = 0
    /\ polygon_cache = <<>>
    /\ finance_cache \in ThrCaches
    /\ kcall = CacheNoCall
    /\ ThrIdle

\* results = {}; every ticker is submitted to the executor.
BatchFetchYfinanceIncomeStmts ==
    /\ tmain.st = "idle"
    /\ \E tickers \in {{"A"}, ThrTickers} :
          /\ tmain' = [st |-> "running", tickers |-> tickers,
                       before |-> finance_cache, results |-> <<>>]
          /\ thr' = [t \in tickers |->
                        [pc |-> "start", now |-> 0, ret |-> NoneVal,
                         wrote |-> <<>>, raised |-> FALSE]]
    /\ UNCHANGED cacheVars
    /\ UNCHANGED thrRest

\* now = time.time()
ThrNow(t) ==
    /\ thr[t].pc = "start"
    /\ thr' = [thr EXCEPT ![t].pc = "check", ![t].now = clock]
    /\ UNCHANGED <<tmain, cacheVars>>
    /\ UNCHANGED thrRest

\* if ticker in finance_cache and now - finance_cache[ticker][1] < CACHE_TTL
ThrCheck(t) ==
    /\ thr[t].pc = "check"
    /\ thr' = [thr EXCEPT ![t].pc =
                  IF CacheFresh(finance_cache, t, thr[t].now) THEN "hit" ELSE "fetch"]
    /\ UNCHANGED <<tmain, cacheVars>>
    /\ UNCHANGED thrRest

\* return finance_cache[ticker][0]
ThrHit(t) ==
    /\ thr[t].pc = "hit"
    /\ thr' = [thr EXCEPT ![t].pc = "done", ![t].ret = finance_cache[t].data]
    /\ UNCHANGED <<tmain, cacheVars>>
    /\ UNCHANGED thrRest

\* income = yf.Ticker(ticker).income_stmt: yfinance answers with the
\* statement of the ticker, or the request raises and None is returned.
ThrFetch(t) ==
    /\ thr[t].pc = "fetch"
    /\ \E ok \in BOOLEAN :
          thr' = IF ok
                 THEN [thr EXCEPT ![t].pc = "store", ![t].ret = Statement(t, clock)]
                 ELSE [thr EXCEPT ![t].pc = "done", ![t].ret = NoneVal,
                                  ![t].raised = TRUE]
    /\ UNCHANGED <<tmain, cacheVars>>
    /\ UNCHANGED thrRest

\* finance_cache[ticker] = (income, time.time()); return income
ThrStore(t) ==
    /\ thr[t].pc = "store"
    /\ finance_cache' = CachePut(finance_cache, t, thr[t].ret, clock)
    /\ thr' = [thr EXCEPT ![t].pc = "done",
                          ![t].wrote = <<[data |-> thr[t].ret, ts |-> clock]>>]
    /\ UNCHANGED <<tmain, clock, kticks, polygon_cache, kcall>>
    /\ UNCHANGED thrRest

\* as_completed yields a finished future: results[ticker] = future.result()
ThrCollect(t) ==
    /\ tmain.st = "running"
    /\ thr[t].pc = "done"
    /\ t \notin DOMAIN tmain.results
    /\ tmain' = [tmain EXCEPT !.results =
                    [u \in DOMAIN tmain.results \cup {t} |->
                        IF u = t THEN thr[t].ret ELSE tmain.results[u]]]
    /\ UNCHANGED <<thr, cacheVars>>
    /\ UNCHANGED thrRest

\* Every future was yielded: return results
ThrReturn ==
    /\ tmain.st = "running"
    /\ DOMAIN tmain.results = tmain.tickers
    /\ tmain' = [tmain EXCEPT !.st = "returned"]
    /\ UNCHANGED <<thr, cacheVars>>
    /\ UNCHANGED thrRest

ThrNext ==
    \/ Tick
    \/ BatchFetchYfinanceIncomeStmts
    \/ \E t \in DOMAIN thr : ThrNow(t)
    \/ \E t \in DOMAIN thr : ThrCheck(t)
    \/ \E t \in DOMAIN thr : ThrHit(t)
    \/ \E t \in DOMAIN thr : ThrFetch(t)
    \/ \E t \in DOMAIN thr : ThrStore(t)
    \/ \E t \in DOMAIN thr : ThrCollect(t)
    \/ ThrReturn

InitThreads == ThrInit /\ CoreIdle /\ CanIdle /\ PureIdle /\ BatchIdle /\ DbIdle /\ SemIdle /\ GrpIdle /\ TrdIdle /\ SpIdle

SpecThreads == InitThreads /\ [][ThrNext]_vars

(***************************************************************************)
(* calculate_rsi on its own: app/strategies/stage2.py                      *)
(***************************************************************************)
\* hist['RSI'] = calculate_rsi(hist['close']); latest = hist.iloc[-1]
LatestRsi(s) == calculate_rsi(s, Len(s))

\* The most bars after the flat start of the series the RSI is taken of.
MaxRsiTail == 3

\* Closes: a flat start, shorter or longer than the 200-bar average needs,
\* and a tail moving by -1, 0 or +1 per bar.
RsiTails == UNION {[1..n -> {-1, 0, 1}] : n \in 0..MaxRsiTail}

RsiCloses(p, t) == p \o [i \in 1..Len(t) |-> 100 + SumRange(t, 1, i)]

RsiInputs ==
    {RsiCloses(p, t) : p \in {Ramp(13, 100, 0), Ramp(200, 100, 0)}, t \in RsiTails}

RsiInit ==
    /\ arg \in RsiInputs
    /\ res = <<>>

\* check_trend_template computes the RSI of the fetched closes and decides.
CalculateRsi ==
    /\ res = <<>>
    /\ res' = <<[rsi |-> LatestRsi(arg), verdict |-> check_trend_template(arg)]>>
    /\ UNCHANGED arg
    /\ UNCHANGED pureRest

InitRsi == RsiInit /\ CoreIdle /\ CanIdle /\ BatchIdle /\ CacheIdle /\ ThrIdle /\ DbIdle /\ SemIdle /\ GrpIdle /\ TrdIdle /\ SpIdle

SpecRsi == InitRsi /\ [][CalculateRsi]_vars

(***************************************************************************)
(* detect_golden_cross called again on the frame it was given              *)
(*                                                                         *)
(* detect_golden_cross works on the caller's DataFrame: it adds the        *)
(* columns MA50 and MA200 and drops, in place, the rows in which one of    *)
(* them is NaN.  A frame is the closes it still holds and the number of    *)
(* bars dropped in front of them, which gives the kept bars their dates.   *)
(***************************************************************************)
Frame(s) == [s |-> s, off |-> 0]

\* df["Signal"] of bar i, from the rolling means of the bar.
SignalAt(s, i) == Signal(RollSum(s, 50, i), RollSum(s, 200, i))

\* The bars with df["Cross"] == 1, as CrossRows, each bar computed by itself.
CrossRowsAt(s) == {i \in 201..Len(s) : SignalAt(s, i) - SignalAt(s, i - 1) = 1}

\* detect_golden_cross(df) at clock time now: the result, and the frame the
\* caller holds afterwards.
detect_golden_cross_df(f, c, now) ==
    IF Len(f.s) < 200 THEN [res |-> FALSE, df |-> f]
    ELSE LET cutoff == now - CutoffHours
         IN [res |-> \E i \in CrossRowsAt(f.s) : BarTime(c, f.off + i) >= cutoff,
             df |-> [s |-> SubSeq(f.s, 200, Len(f.s)), off |-> f.off + 199]]

\* The most bars after the flat start of the frames detect_golden_cross is
\* called on twice.
MaxTwiceTail == 2

TwiceTails == UNION {[1..n -> {100, 101}] : n \in 0..MaxTwiceTail}

TwicePrefixes == {Ramp(199, 100, 0), Ramp(200, 100, 0), Ramp(399, 100, 0)}

TwiceInputs ==
    {[df |-> Frame(p \o t), cal |-> c, now |-> 24 * (Day(c, Len(p \o t)) + dl) + h] :
        p \in TwicePrefixes, t \in TwiceTails, c \in {"daily", "weekdays"},
        dl \in 0..MaxDelay, h \in NowHours}

TwiceInit ==
    /\ arg \in TwiceInputs
    /\ res = <<>>

\* detect_golden_cross(df) is called, a first and a second time, on the same
\* frame object at the same clock time.
DetectGoldenCrossTwice ==
    /\ Len(res) < 2
    /\ LET out == detect_golden_cross_df(arg.df, arg.cal, arg.now)
       IN /\ res' = Append(res, out.res)
          /\ arg' = [arg EXCEPT !.df = out.df]
    /\ UNCHANGED pureRest

InitTwice == TwiceInit /\ CoreIdle /\ CanIdle /\ BatchIdle /\ CacheIdle /\ ThrIdle /\ DbIdle /\ SemIdle /\ GrpIdle /\ TrdIdle /\ SpIdle

SpecTwice == InitTwice /\ [][DetectGoldenCrossTwice]_vars

(***************************************************************************)
(* The verdict store: app/db.py, the run_and_store_* runs of the           *)
(* strategies and the read endpoints of app/api/routes.py                  *)
(*                                                                         *)
(* Every screen has its own table.  A run opens a session, screens, stamps *)
(* its rows with datetime.now() cut to whole seconds, adds them to the     *)
(* session and commits; only the commit changes the table.  The clock and *)
(* the reads are interleaved with the steps of a run.                      *)
(***************************************************************************)
\* Runs that read datetime.now() before they screen and catch no exception:
\* run_and_store_option_signals and the script of stage2.py.
StampFirst == {"option", "stage2"}

\* The screens with a read endpoint /<screen>_db.
ReadScreens == {"canslim", "bora", "golden", "stage2"}

\* What a run can find: the tickers (for the option run, the strategies)
\* that qualify.
DbResults == {{}, {"A"}, {"A", "B"}}

\* How many runs of a screen are started.
MaxRuns == 2

\* The clock of the store: the seconds of a day and the days.
DbTimes == 0..1

DbDates == 0..1

\* A second passes, or midnight.
DbTick ==
    /\ \/ /\ dbnow.time + 1 \in DbTimes
          /\ dbnow' = [dbnow EXCEPT !.time = dbnow.time + 1]
       \/ /\ dbnow.date + 1 \in DbDates
          /\ dbnow' = [date |-> dbnow.date + 1, time |-> 0]
    /\ UNCHANGED <<tables, job, runlog, reply>>
    /\ UNCHANGED dbRest

\* session = SessionLocal(); the runs of StampFirst read the clock here.
\* The tables are independent of each other: a behaviour follows the runs
\* of one screen, started one after the other.
RunAndStore(k) ==
    /\ job[k].st = "idle"
    /\ \A j \in Screens \ {k} : job[j].st = "idle" /\ runlog[j] = <<>>
    /\ Len(runlog[k]) < MaxRuns
    /\ job' = [job EXCEPT ![k] =
                  [st |-> "screening",
                   stamp |-> IF k \in StampFirst THEN <<dbnow>> ELSE <<>>,
                   pending |-> {}, results |-> {}]]
    /\ UNCHANGED <<dbnow, tables, runlog, reply>>
    /\ UNCHANGED dbRest

\* The autoincrement ids of n new rows of a table.
NewIds(rows, n) == {Cardinality(rows) + i : i \in 1..n}

\* One entry per result, all with the data_date and data_time of the stamp.
Entries(rows, results, stamp) ==
    LET ids == NewIds(rows, Cardinality(results))
        idOf == CHOOSE f \in [results -> ids] : \A x, y \in results : x # y => f[x] # f[y]
    IN {[id |-> idOf[x], symbol |-> x,
         data_date |-> stamp.date, data_time |-> stamp.time] : x \in results}

\* A run that ended, as kept for the claims.
Ended(j, rows, raised) ==
    [stamp |-> j.stamp, results |-> j.results, rows |-> rows, raised |-> raised]

\* The screening ended: it raised, and the run ends with nothing stored (the
\* session is closed, or the process ends, without a commit); or it returned
\* its results, and the entries are added to the session.
RunScreened(k) ==
    /\ job[k].st = "screening"
    /\ \E raised \in BOOLEAN, results \in DbResults :
          IF raised
          THEN /\ results = {}
               /\ job' = [job EXCEPT ![k] = DbNoJob]
               /\ runlog' = [runlog EXCEPT ![k] = Append(@, Ended(job[k], {}, TRUE))]
          ELSE /\ job' = [job EXCEPT ![k] =
                             [st |-> "pending",
                              stamp |-> IF k \in StampFirst THEN job[k].stamp ELSE <<dbnow>>,
                              pending |-> {}, results |-> results]]
               /\ runlog' = runlog
    /\ UNCHANGED <<dbnow, tables, reply>>
    /\ UNCHANGED dbRest

\* A commit that keeps none of the rows the table had.
DbCommitOnly(rows, pending) == pending

\* session.commit(): the pending entries become rows of the table.
DbCommit(rows, pending) == rows \cup pending

\* session.commit(), or the commit raises and nothing is stored.
RunCommit(k) ==
    /\ job[k].st = "pending"
    /\ \E ok \in BOOLEAN :
          LET new == Entries(tables[k], job[k].results, job[k].stamp[1])
          IN IF ok
             THEN /\ tables' = [tables EXCEPT ![k] = DbCommit(@, new)]
                  /\ runlog' = [runlog EXCEPT ![k] = Append(@, Ended(job[k], new, FALSE))]
             ELSE /\ tables' = tables
                  /\ runlog' = [runlog EXCEPT ![k] = Append(@, Ended(job[k], {}, TRUE))]
    /\ job' = [job EXCEPT ![k] = DbNoJob]
    /\ UNCHANGED <<dbnow, reply>>
    /\ UNCHANGED dbRest

\* The two queries of a read endpoint on the rows of its table: the latest
\* data_time of today, then the rows of today with that data_time.
get_db(rows, today) ==
    LET todays == {r \in rows : r.data_date = today}
    IN IF todays = {}
       THEN [error |-> TRUE, time |-> 0, rows |-> {}]
       ELSE LET latest == CHOOSE t \in {r.data_time : r \in todays} :
                              \A r \in todays : r.data_time <= t
            IN [error |-> FALSE, time |-> latest,
                rows |-> {r \in todays : r.data_time = latest}]

\* GET /canslim_db, /bora_db, /golden_cross_db, /stage2_db: the handler
\* queries the table and builds its response.
GetDb(k) ==
    /\ reply = DbNoRead
    /\ LET today == dbnow.date
           got == get_db(tables[k], today)
       IN reply' = [screen |-> k, error |-> got.error, today |-> today,
                    time |-> got.time, rows |-> got.rows, log |-> runlog[k]]
    /\ UNCHANGED <<dbnow, tables, job, runlog>>
    /\ UNCHANGED dbRest

\* The response is sent (finally: session.close()).
DbReplied ==
    /\ reply # DbNoRead
    /\ reply' = DbNoRead
    /\ UNCHANGED <<dbnow, tables, job, runlog>>
    /\ UNCHANGED dbRest

DbNext ==
    \/ DbTick
    \/ \E k \in Screens : RunAndStore(k)
    \/ \E k \in Screens : RunScreened(k)
    \/ \E k \in Screens : RunCommit(k)
    \/ \E k \in ReadScreens : GetDb(k)
    \/ DbReplied

InitDb == DbIdle /\ CoreIdle /\ CanIdle /\ PureIdle /\ BatchIdle /\ CacheIdle /\ ThrIdle /\ SemIdle /\ GrpIdle /\ TrdIdle /\ SpIdle

SpecDb == InitDb /\ [][DbNext]_vars

(***************************************************************************)
(* The fan-out of golden_cross_strategy: golden_cross_strategy.py          *)
(*                                                                         *)
(* The strategy enters `async with asyncio.Semaphore(10)` once, creates    *)
(* one screen_golden_cross coroutine per ticker and awaits their gather.   *)
(* The event loop runs every task up to its first await, the request of    *)
(* get_polygon_data, before it handles a response.                         *)
(***************************************************************************)
\* asyncio.Semaphore(10)
SemaphoreLimit == 10

\* The most tickers get_sp500_tickers() returns in the model.
MaxGcsTickers == 11

InFlight == {i \in DOMAIN gtask : gtask[i] = "inflight"}

\* tickers = await get_sp500_tickers(); the semaphore is created and
\* acquired by the strategy itself; the coroutines are created.
GoldenCrossStrategy ==
    /\ gtask = <<>>
    /\ sem = 0
    /\ \E n \in 1..MaxGcsTickers : gtask' = [i \in 1..n |-> "new"]
    /\ sem' = SemaphoreLimit - 1
    /\ UNCHANGED semRest

\* The next task of the gather runs up to its request; it takes nothing
\* from the semaphore.
ScreenRequest ==
    /\ \E i \in DOMAIN gtask :
          /\ gtask[i] = "new"
          /\ \A j \in 1..(i - 1) : gtask[j] # "new"
          /\ gtask' = [gtask EXCEPT ![i] = "inflight"]
    /\ UNCHANGED sem
    /\ UNCHANGED semRest

\* A response arrived and screen_golden_cross returned.
ScreenEnd ==
    /\ \A j \in DOMAIN gtask : gtask[j] # "new"
    /\ \E i \in InFlight : gtask' = [gtask EXCEPT ![i] = "done"]
    /\ UNCHANGED sem
    /\ UNCHANGED semRest

\* The gather returned: the picks are returned and the semaphore released.
GcsReturn ==
    /\ gtask # <<>>
    /\ \A j \in DOMAIN gtask : gtask[j] = "done"
    /\ sem = SemaphoreLimit - 1
    /\ sem' = SemaphoreLimit
    /\ UNCHANGED gtask
    /\ UNCHANGED semRest

GcsNext == GoldenCrossStrategy \/ ScreenRequest \/ ScreenEnd \/ GcsReturn

InitGcs == SemIdle /\ CoreIdle /\ CanIdle /\ PureIdle /\ BatchIdle /\ CacheIdle /\ ThrIdle /\ DbIdle /\ GrpIdle /\ TrdIdle /\ SpIdle

SpecGcs == InitGcs /\ [][GcsNext]_vars

(***************************************************************************)
(* The groups of fetch_polygon_data_batch: canslim_strategy.py (and the    *)
(* same loop in services/polygon.py)                                       *)
(*                                                                         *)
(* One call is followed through its loop: the uncached tickers are cut     *)
(* into slices of batch_size, the fetches of a slice are gathered, stored  *)
(* and followed by a sleep.  fetch_func is get_polygon_data, which returns *)
(* a frame or None and does not raise.                                     *)
(***************************************************************************)
\* The most tickers a call is given.
MaxGrpTickers == 6

GrpNames == <<"A", "B", "C", "D", "E", "F", "G">>

\* The lists of tickers a call is given, and its batch_size (5 by default).
GrpTickerLists == {SubSeq(GrpNames, 1, n) : n \in 1..MaxGrpTickers}

GrpBatchSizes == {2, 5}

\* polygon_cache when the call is made: empty, or holding what a call at
\* time 0 stored for A and C.
GrpCaches ==
    {<<>>,
     CachePut(CachePut(<<>>, "A", Statement("A", 0), 0), "C", NoneVal, 0)}

GrpInit ==
    /\ clock \in {0, CACHE_TTL - 1, CACHE_TTL}
    /\ kticks = 0
    /\ polygon_cache \in GrpCaches
    /\ finance_cache = <<>>
    /\ kcall = CacheNoCall
    /\ pcall = GrpNoCall

Min(a, b) == IF a < b THEN a ELSE b

\* uncached[i:] (0-based i)
BatchRest(uncached, i, batch_size) == SubSeq(uncached, i + 1, Len(uncached))

\* uncached[i:i+batch_size] (0-based i)
Batch(uncached, i, batch_size) ==
    SubSeq(uncached, i + 1, Min(i + batch_size, Len(uncached)))

Range(q) == {q[j] : j \in DOMAIN q}

GrpInFlight == {t \in DOMAIN pcall.flight : pcall.flight[t].st = "inflight"}

\* results = {}; now = time.time(); the fresh entries are copied into
\* results, the other tickers are appended to uncached.
PolygonBatchCall ==
    /\ pcall.st = "idle"
    /\ \E tickers \in GrpTickerLists, batch_size \in GrpBatchSizes :
          LET now == clock
              cached == {t \in Range(tickers) : CacheFresh(polygon_cache, t, now)}
              uncached == SelectSeq(tickers, LAMBDA t : t \notin cached)
          IN pcall' = [st |-> "loop", tickers |-> tickers, batch_size |-> batch_size,
                       now |-> now, before |-> polygon_cache, uncached |-> uncached,
                       i |-> 0,
                       flight |-> [t \in Range(uncached) |-> [st |-> "new", data |-> NoneVal]],
                       results |-> [t \in cached |-> polygon_cache[t].data]]
    /\ UNCHANGED cacheVars
    /\ UNCHANGED grpRest

\* batch = uncached[i:i+batch_size]; tasks = [fetch_func(t, session) ...];
\* the gather starts every task of the batch.
GroupStart ==
    /\ pcall.st = "loop"
    /\ pcall.i < Len(pcall.uncached)
    /\ LET batch == Batch(pcall.uncached, pcall.i, pcall.batch_size)
       IN pcall' = [pcall EXCEPT
              !.st = "gather",
              !.flight = [t \in DOMAIN pcall.flight |->
                             IF t \in Range(batch) THEN [st |-> "inflight", data |-> NoneVal]
                             ELSE pcall.flight[t]]]
    /\ UNCHANGED cacheVars
    /\ UNCHANGED grpRest

\* A fetch of the batch completed, with a frame or with None.
GroupFetchEnd ==
    /\ pcall.st = "gather"
    /\ \E t \in GrpInFlight, ok \in BOOLEAN :
          pcall' = [pcall EXCEPT !.flight[t] =
                       [st |-> "done",
                        data |-> IF ok THEN Statement(t, clock) ELSE NoneVal]]
    /\ UNCHANGED cacheVars
    /\ UNCHANGED grpRest

RECURSIVE CachePutAll(_, _, _, _)
\* for ticker, data in zip(batch, batch_results):
\*     polygon_cache[ticker] = (data, time.time())
CachePutAll(cache, batch, data, ts) ==
    IF batch = <<>> THEN cache
    ELSE CachePutAll(CachePut(cache, Head(batch), data[Head(batch)].data, ts),
                     Tail(batch), data, ts)

\* The gather returned: every result of the batch is stored in the cache and
\* in results; then the call sleeps.
GroupGathered ==
    /\ pcall.st = "gather"
    /\ GrpInFlight = {}
    /\ LET batch == Batch(pcall.uncached, pcall.i, pcall.batch_size)
       IN /\ polygon_cache' = CachePutAll(polygon_cache, batch, pcall.flight, clock)
          /\ pcall' = [pcall EXCEPT
                 !.st = "sleep",
                 !.results = [t \in DOMAIN pcall.results \cup Range(batch) |->
                                 IF t \in Range(batch) THEN pcall.flight[t].data
                                 ELSE pcall.results[t]]]
    /\ UNCHANGED <<clock, kticks, finance_cache, kcall>>
    /\ UNCHANGED grpRest

\* await asyncio.sleep(delay) returned; time has passed; the loop goes on
\* with i + batch_size.
GroupSlept ==
    /\ pcall.st = "sleep"
    /\ pcall' = [pcall EXCEPT !.st = "loop", !.i = pcall.i + pcall.batch_size]
    /\ clock' = clock + 1
    /\ UNCHANGED <<kticks, polygon_cache, finance_cache, kcall>>
    /\ UNCHANGED grpRest

\* return results
PolygonBatchReturn ==
    /\ pcall.st = "loop"
    /\ pcall.i >= Len(pcall.uncached)
    /\ pcall' = [pcall EXCEPT !.st = "returned"]
    /\ UNCHANGED cacheVars
    /\ UNCHANGED grpRest

GrpNext ==
    \/ PolygonBatchCall
    \/ GroupStart
    \/ GroupFetchEnd
    \/ GroupGathered
    \/ GroupSlept
    \/ PolygonBatchReturn

InitGroups == GrpInit /\ CoreIdle /\ CanIdle /\ PureIdle /\ BatchIdle /\ ThrIdle /\ DbIdle /\ SemIdle /\ TrdIdle /\ SpIdle

SpecGroups == InitGroups /\ [][GrpNext]_vars

(***************************************************************************)
(* trending_stocks.py: download_stock_data, analyze_trends and the table   *)
(***************************************************************************)
\* download_stock_data(ticker, start, end, retries=3, delay=5)
Retries == 3
\* trending_df.head(10), trending_df.tail(10)
TopRows == 10
\* analyze_trends(365, '365_days'), analyze_trends(90, '90_days')
TrendTypes == {"365_days", "90_days"}
\* What one yf.download attempt gives: a frame with a Close column, a frame
\* without one, or an exception.
Downloads == {"close", "noclose", "raise"}

TrendNames == <<"A", "B", "C", "D", "E", "F", "G", "H", "I", "J", "K", "L">>
TrendSizes == {1, 2, 11}
TrendSizesLive == {1, 2}
TrendIndex(t) == CHOOSE k \in DOMAIN TrendNames : TrendNames[k] = t
\* The script is run at most MaxTrendRuns times in a behaviour, and at most
\* MaxFails downloads fail or give no overlapping data.
MaxTrendRuns == 2
MaxFails == 3

\* The ticker list of get_sp500_tickers() and the price changes of the
\* period: rising or falling along the list, gains and losses, no two equal.
TrdInit(sizes, rising) ==
    /\ \E n \in sizes : sp500_tickers = SubSeq(TrendNames, 1, n)
    /\ \E up \in rising :
          price_change = [t \in Range(sp500_tickers) |->
                             IF up THEN 3 * TrendIndex(t) - 10
                             ELSE 10 - 3 * TrendIndex(t)]
    /\ trending_stocks = {}
    /\ trend = TrdNoRun

\* One more pass of `for i in range(retries)` with the given outcome of
\* yf.download, after the attempts in made: the call returns the data, goes
\* on after time.sleep(delay), or returns None after the last pass.
download_stock_data_once(made, outcome, retries) ==
    IF outcome = "close"
    THEN [done |-> TRUE, ret |-> "data", made |-> Append(made, outcome)]
    ELSE [done |-> TRUE, ret |-> "None", made |-> Append(made, outcome)]

download_stock_data(made, outcome, retries) ==
    IF outcome = "close"
    THEN [done |-> TRUE, ret |-> "data", made |-> Append(made, outcome)]
    ELSE IF Len(made) + 1 >= retries
         THEN [done |-> TRUE, ret |-> "None", made |-> Append(made, outcome)]
         ELSE [done |-> FALSE, ret |-> "", made |-> Append(made, outcome)]

\* trending_df.sort_values(by="Price Change (%)", ascending=False)
RECURSIVE SortDescending(_)
SortDescending(S) ==
    IF S = {} THEN <<>>
    ELSE LET top == CHOOSE t \in S : \A u \in S : price_change[u] <= price_change[t]
         IN <<top>> \o SortDescending(S \ {top})

Reversed(q) == [k \in 1..Len(q) |-> q[Len(q) + 1 - k]]
\* df.head(n), and df.tail(n).sort_values(by="Price Change (%)")
head(q, n) == SubSeq(q, 1, Min(n, Len(q)))
tail(q, n) == SubSeq(q, Len(q) - Min(n, Len(q)) + 1, Len(q))

\* f"{trend_type}_uptrend", f"{trend_type}_downtrend"
Uptrend(trend_type) == trend_type \o "_uptrend"
Downtrend(trend_type) == trend_type \o "_downtrend"

\* DELETE FROM trending_stocks WHERE trend_type = ?
clear_old_data(rows, trend_type) == {r \in rows : r.trend_type # trend_type}

\* One INSERT per row of data, with the trend type and the time of the call;
\* the ids go on from seq.
insert_trend_data(rows, data, trend_type, seq, now) ==
    rows \cup {[id |-> seq + k, ticker |-> data[k],
                price_change |-> price_change[data[k]],
                trend_type |-> trend_type, analysis_date |-> now] :
               k \in 1..Len(data)}

\* analyze_trends(period_days, trend_type) is called; the download of ^GSPC
\* raises (return None, None) or gives the market data, and the loop over
\* sp500_tickers starts.
AnalyzeTrends(trend_type, market) ==
    /\ trend.st = "idle"
    /\ Len(trend.log) < MaxTrendRuns
    /\ IF market = "raise"
       THEN trend' = [trend EXCEPT
                !.trend_type = trend_type, !.now = trend.now + 1,
                !.ret = <<[none |-> TRUE, up |-> <<>>, down |-> <<>>]>>,
                !.log = Append(trend.log,
                               [trend_type |-> trend_type, date |-> trend.now + 1,
                                stored |-> FALSE, failed |-> <<>>])]
       ELSE trend' = [trend EXCEPT
                !.st = "loop", !.trend_type = trend_type, !.now = trend.now + 1,
                !.i = 1, !.made = <<>>, !.last = <<>>, !.trending = {},
                !.failed_tickers = <<>>, !.ret = <<>>]
    /\ UNCHANGED <<sp500_tickers, price_change, trending_stocks>>
    /\ UNCHANGED trdRest

\* One attempt of download_stock_data for the ticker of the loop.  When the
\* call returns, analyze_trends goes on: without data, or without dates in
\* common with the market data, the ticker is added to failed_tickers and the
\* loop continues; otherwise its figures are added to trending_stocks.
DownloadAttempt(outcome, overlap) ==
    /\ trend.st = "loop"
    /\ trend.i <= Len(sp500_tickers)
    /\ outcome # "close" => overlap
    /\ (outcome # "close" \/ ~overlap) => trend.fails < MaxFails
    /\ LET ticker == sp500_tickers[trend.i]
           d == download_stock_data(trend.made, outcome, Retries)
           spent == IF outcome # "close" \/ ~overlap THEN 1 ELSE 0
       IN IF ~d.done
          THEN trend' = [trend EXCEPT !.made = d.made, !.fails = trend.fails + spent]
          ELSE trend' = [trend EXCEPT
                   !.made = <<>>,
                   !.last = <<[ticker |-> ticker, made |-> d.made, ret |-> d.ret]>>,
                   !.i = trend.i + 1,
                   !.fails = trend.fails + spent,
                   !.failed_tickers =
                       IF d.ret = "None" \/ ~overlap
                       THEN Append(trend.failed_tickers, ticker)
                       ELSE trend.failed_tickers,
                   !.trending =
                       IF d.ret = "None" \/ ~overlap
                       THEN trend.trending
                       ELSE trend.trending \cup {ticker}]
    /\ UNCHANGED <<sp500_tickers, price_change, trending_stocks>>
    /\ UNCHANGED trdRest

\* The loop has ended: with results, the ten highest and the ten lowest price
\* changes are taken, clear_old_data(trend_type) runs and both frames are
\* inserted; without results nothing is written.
StoreTrends ==
    /\ trend.st = "loop"
    /\ trend.i > Len(sp500_tickers)
    /\ LET trending_df == SortDescending(trend.trending)
           top_uptrend == head(trending_df, TopRows)
           top_downtrend == Reversed(tail(trending_df, TopRows))
           cleared == clear_old_data(trending_stocks, trend.trend_type)
           first == insert_trend_data(cleared, top_uptrend,
                                      Uptrend(trend.trend_type), trend.seq, trend.now)
           second == insert_trend_data(first, top_downtrend,
                                       Downtrend(trend.trend_type),
                                       trend.seq + Len(top_uptrend), trend.now)
           stored == trend.trending # {}
       IN /\ trending_stocks' = IF stored THEN second ELSE trending_stocks
          /\ trend' = [trend EXCEPT
                 !.st = "idle",
                 !.seq = IF stored
                         THEN trend.seq + Len(top_uptrend) + Len(top_downtrend)
                         ELSE trend.seq,
                 !.ret = IF stored
                         THEN <<[none |-> FALSE, up |-> top_uptrend, down |-> top_downtrend]>>
                         ELSE <<[none |-> TRUE, up |-> <<>>, down |-> <<>>]>>,
                 !.log = Append(trend.log,
                                [trend_type |-> trend.trend_type, date |-> trend.now,
                                 stored |-> stored, failed |-> trend.failed_tickers])]
    /\ UNCHANGED <<sp500_tickers, price_change>>
    /\ UNCHANGED trdRest

TrdStep ==
    \/ \E outcome \in Downloads, overlap \in BOOLEAN : DownloadAttempt(outcome, overlap)
    \/ StoreTrends

TrdNext ==
    \/ \E trend_type \in TrendTypes, market \in {"data", "raise"} :
          AnalyzeTrends(trend_type, market)
    \/ TrdStep

InitTrends == TrdInit(TrendSizes, BOOLEAN) /\ CoreIdle /\ CanIdle /\ PureIdle /\ BatchIdle /\ CacheIdle /\ ThrIdle /\ DbIdle /\ SemIdle /\ GrpIdle /\ SpIdle

SpecTrends == InitTrends /\ [][TrdNext]_vars

InitTrendsLive == TrdInit(TrendSizesLive, {TRUE}) /\ CoreIdle /\ CanIdle /\ PureIdle /\ BatchIdle /\ CacheIdle /\ ThrIdle /\ DbIdle /\ SemIdle /\ GrpIdle /\ SpIdle

\* A started call is not suspended for ever: the script runs it to its end.
SpecTrendsLive == InitTrendsLive /\ [][TrdNext]_vars /\ WF_vars(TrdStep)

(***************************************************************************)
(* services/sp500.py: the ticker list and its TTLCache                     *)
(***************************************************************************)
\* sp500_cache = TTLCache(maxsize=1, ttl=3600)
SP500_TTL == 3600
\* The timer advances by a second or by a second less than an hour, at most
\* MaxSpTicks times, between any two steps; MaxSpCalls calls are followed.
TimerSteps == {1, SP500_TTL - 1}
MaxSpTicks == 4
MaxSpCalls == 3

\* `key in cache` and the test of cache[key] of a TTLCache: the entry exists
\* and the timer has not reached its expiry time.  At the very expiry time
\* the releases of cachetools differ (lax: the entry still counts).
contains_for_ever(cache, now, lax) == cache # <<>>

contains(cache, now, lax) ==
    /\ cache # <<>>
    /\ \/ now < cache[1].expires
       \/ lax /\ now = cache[1].expires

\* cache[key] = value: the entry expires ttl seconds after the store.
setitem(value, now) == <<[value |-> value, expires |-> now + SP500_TTL]>>

\* What Wikipedia returns at a time: the symbols, or the frame with sectors.
Fetched(kind, now) == [kind |-> kind, at |-> now]

\* get_sp500_tickers(with_sector) is called and evaluates
\* `not with_sector and "tickers" in sp500_cache`.
GetSp500Tickers(with_sector, lax) ==
    /\ spcall.st \in {"idle", "returned"}
    /\ spcall.n < MaxSpCalls
    /\ spcall' = [st |-> IF ~with_sector /\ contains(sp500_cache, timer, lax)
                         THEN "read" ELSE "fetch",
                  with_sector |-> with_sector,
                  check |-> <<[cache |-> sp500_cache, now |-> timer]>>,
                  read |-> <<>>, fetched |-> <<>>, ret |-> <<>>, raised |-> "",
                  n |-> spcall.n + 1]
    /\ UNCHANGED <<sp500_cache, timer, sticks>>
    /\ UNCHANGED spRest

\* return sp500_cache["tickers"]: the value, or KeyError when the entry has
\* gone since the test.
SpRead(lax) ==
    /\ spcall.st = "read"
    /\ spcall' = [spcall EXCEPT
           !.st = "returned",
           !.read = <<[cache |-> sp500_cache, now |-> timer]>>,
           !.ret = IF contains(sp500_cache, timer, lax)
                   THEN <<sp500_cache[1].value>> ELSE <<>>,
           !.raised = IF contains(sp500_cache, timer, lax) THEN "" ELSE "KeyError"]
    /\ UNCHANGED <<sp500_cache, timer, sticks>>
    /\ UNCHANGED spRest

\* pd.read_html(urllib.request.urlopen(req)) returns the table or raises; with
\* with_sector the frame is returned as it is.
SpFetch(outcome) ==
    /\ spcall.st = "fetch"
    /\ spcall' = [spcall EXCEPT
           !.st = IF outcome = "ok" /\ ~spcall.with_sector THEN "store" ELSE "returned",
           !.fetched = <<[ok |-> outcome = "ok", at |-> timer]>>,
           !.ret = IF outcome = "ok" /\ spcall.with_sector
                   THEN <<Fetched("df", timer)>> ELSE <<>>,
           !.raised = IF outcome = "ok" THEN "" ELSE "URLError"]
    /\ UNCHANGED <<sp500_cache, timer, sticks>>
    /\ UNCHANGED spRest

\* sp500_cache["tickers"] = tickers; return tickers
SpStore ==
    /\ spcall.st = "store"
    /\ LET tickers == Fetched("tickers", spcall.fetched[1].at)
       IN /\ sp500_cache' = setitem(tickers, timer)
          /\ spcall' = [spcall EXCEPT !.st = "returned", !.ret = <<tickers>>]
    /\ UNCHANGED <<timer, sticks>>
    /\ UNCHANGED spRest

\* clear_sp500_cache(), called by GET /refresh_cache; the endpoint is a plain
\* function and runs in a worker thread, at any moment.
ClearSp500Cache ==
    /\ sp500_cache' = <<>>
    /\ UNCHANGED <<timer, sticks, spcall>>
    /\ UNCHANGED spRest

SpTick(d) ==
    /\ sticks < MaxSpTicks
    /\ timer' = timer + d
    /\ sticks' = sticks + 1
    /\ UNCHANGED <<sp500_cache, spcall>>
    /\ UNCHANGED spRest

SpNext ==
    \/ \E with_sector \in BOOLEAN, lax \in BOOLEAN : GetSp500Tickers(with_sector, lax)
    \/ \E lax \in BOOLEAN : SpRead(lax)
    \/ \E outcome \in {"ok", "raise"} : SpFetch(outcome)
    \/ SpStore
    \/ ClearSp500Cache
    \/ \E d \in TimerSteps : SpTick(d)

InitSp500 == SpIdle /\ CoreIdle /\ CanIdle /\ PureIdle /\ BatchIdle /\ CacheIdle /\ ThrIdle /\ DbIdle /\ SemIdle /\ GrpIdle /\ TrdIdle

SpecSp500 == InitSp500 /\ [][SpNext]_vars

(***************************************************************************)
(* Claims about the Buy/Sell evaluator                                     *)
(***************************************************************************)
Evaluated == sig # "none"

AllDefined(r) ==
    /\ notna(r.close) /\ notna(r.lower) /\ notna(r.upper) /\ notna(r.rsi)
    /\ notna(r.macd) /\ notna(r.signal_line) /\ notna(r.k) /\ notna(r.psar)
    /\ notna(r.ma200) /\ notna(r.avg_volume) /\ notna(r.volume)

Prox == proximity_percentage(vol10)

\* The six Buy conditions and the Sell conditions as the specification words
\* them, for a row whose fields they read are defined.
BuyConds(r) ==
    /\ r.close * ProxScale <= r.lower * (ProxScale + Prox)
    /\ r.rsi > 30
    /\ r.k < 20
    /\ r.close > r.psar
    /\ r.close >= r.ma200
    /\ 10 * r.volume >= 12 * r.avg_volume

SellConds(r) ==
    /\ r.close * ProxScale >= r.upper * (ProxScale - Prox)
    /\ r.rsi < 70
    /\ (r.macd < r.signal_line \/ (r.k > 80 /\ r.close < r.psar))
    /\ 10 * r.volume >= 12 * r.avg_volume

\* C1: on a bar where every indicator is defined the result is Buy exactly
\* when all six Buy conditions hold.
C1_BuyIffSixConditions ==
    (Evaluated /\ AllDefined(row)) => (sig = "Buy" <=> BuyConds(row))

C1_Witness == sig = "Buy" /\ AllDefined(row)

\* C2: on a bar where every indicator is defined and the Buy conditions do
\* not hold, the result is Sell exactly when the Sell conditions hold (the
\* 200-day SMA being no Sell condition), and Hold otherwise.
C2_SellIffConditions ==
    (Evaluated /\ AllDefined(row) /\ ~BuyConds(row)) =>
        /\ sig = "Sell" <=> SellConds(row)
        /\ sig \in {"Sell", "Hold"}

\* C3 as claimed: Buy needs BollingerLower, RSI, %K, PSAR, 200-SMA and the
\* average volume defined; Sell needs BollingerUpper, RSI, MACD, SignalLine,
\* %K, PSAR and the average volume defined.
C3_UndefinedForcesHold ==
    /\ sig = "Buy" =>
          /\ notna(row.lower) /\ notna(row.rsi) /\ notna(row.k)
          /\ notna(row.psar) /\ notna(row.ma200) /\ notna(row.avg_volume)
    /\ sig = "Sell" =>
          /\ notna(row.upper) /\ notna(row.rsi) /\ notna(row.macd)
          /\ notna(row.signal_line) /\ notna(row.k) /\ notna(row.psar)
          /\ notna(row.avg_volume)

\* C3 amended: Buy is never returned with BollingerLower, RSI, %K or PSAR
\* undefined; Sell is never returned with BollingerUpper, RSI, MACD or
\* SignalLine undefined, and with %K or PSAR undefined only through
\* MACD < SignalLine.
C3_UndefinedCheckedInputsForceHold ==
    /\ sig = "Buy" =>
          notna(row.lower) /\ notna(row.rsi) /\ notna(row.k) /\ notna(row.psar)
    /\ sig = "Sell" =>
          /\ notna(row.upper) /\ notna(row.rsi) /\ notna(row.macd)
          /\ notna(row.signal_line)
          /\ (notna(row.k) /\ notna(row.psar)) \/ row.macd < row.signal_line

\* A bar that would be a Buy but for its undefined %K, evaluated to Hold.
C3_Witness ==
    /\ sig = "Hold"
    /\ row.k = NaN
    /\ notna(row.lower) /\ notna(row.rsi) /\ notna(row.psar)
    /\ row.close * ProxScale <= row.lower * (ProxScale + Prox)
    /\ row.rsi > 30 /\ row.close > row.psar
    /\ row.ma200 = NaN /\ row.avg_volume = NaN

\* The bar of the specification's example, but for its RSI.
C4_Bar(r) ==
    /\ r.k = 15
    /\ Gt(r.close, r.psar)
    /\ Gt(r.close, r.ma200)
    /\ notna(r.avg_volume) /\ 2 * r.volume = 3 * r.avg_volume

\* C4 as claimed: close <= BollingerLower * 1.02 with RSI 35 is a Buy for
\* every proximity, and the same bar with RSI 25 is a Hold.
C4_ExampleBar ==
    (Evaluated /\ C4_Bar(row) /\ notna(row.lower) /\ 100 * row.close <= 102 * row.lower) =>
        /\ row.rsi = 35 => sig = "Buy"
        /\ row.rsi = 25 => sig = "Hold"

\* C4 amended: close <= BollingerLower * (1 + proximity) with RSI 35 is a
\* Buy; the same bar with RSI 25 is never a Buy: it is a Sell when
\* close >= BollingerUpper * (1 - proximity) and MACD < SignalLine, and a
\* Hold otherwise.
C4_ExampleBarWithinProximity ==
    (/\ Evaluated /\ C4_Bar(row) /\ notna(row.lower)
     /\ row.close * ProxScale <= row.lower * (ProxScale + Prox)) =>
        /\ row.rsi = 35 => sig = "Buy"
        /\ row.rsi = 25 =>
              sig = (IF /\ notna(row.upper)
                        /\ row.close * ProxScale >= row.upper * (ProxScale - Prox)
                        /\ Lt(row.macd, row.signal_line)
                     THEN "Sell" ELSE "Hold")

C4_Witness ==
    /\ sig = "Buy" /\ C4_Bar(row) /\ row.rsi = 35
    /\ 100 * row.close <= 102 * row.lower

(***************************************************************************)
(* Claims about the Stage 2 trend template                                 *)
(***************************************************************************)
S2Sum(w) == RollSum(hist, w, Len(hist))
S2Rsi == calculate_rsi(hist, Len(hist))
S2Close == hist[Len(hist)]

S2Defined ==
    /\ hist # <<>>
    /\ notna(S2Sum(50)) /\ notna(S2Sum(150)) /\ notna(S2Sum(200))
    /\ notna(S2Rsi.num)

\* The averages (as sums over their windows), extremes and RSI of the latest
\* bar, and the 200-bar sum of the bar the code compares with in gate 3.
S2Measures ==
    [close |-> S2Close, s50 |-> S2Sum(50), s150 |-> S2Sum(150), s200 |-> S2Sum(200),
     s200before |-> RollSum(hist, 200, Len(hist) - 4),
     low |-> SeqMin(hist), high |-> SeqMax(hist), rsi |-> S2Rsi]

\* The eight gates on measures m.  "200-SMA rising" is taken against the bar
\* the code compares with (hist['200_MA'].iloc[-5]); which bar that should be
\* is the subject of C6.
S2GateOf(m, g) ==
    CASE g = 1 -> 150 * m.close > m.s150 /\ 200 * m.close > m.s200
      [] g = 2 -> 200 * m.s150 > 150 * m.s200
      [] g = 3 -> notna(m.s200before) /\ m.s200 > m.s200before
      [] g = 4 -> 150 * m.s50 > 50 * m.s150 /\ 200 * m.s50 > 50 * m.s200
      [] g = 5 -> 50 * m.close > m.s50
      [] g = 6 -> 10 * m.close >= 13 * m.low
      [] g = 7 -> 4 * m.close >= 3 * m.high
      [] g = 8 -> m.rsi.num >= 70 * m.rsi.den

S2GateName == <<"Gate1", "Gate2", "Gate3", "Gate4", "Gate5", "Gate6", "Gate7", "Gate8">>

C6_RisingAgainstFiveBarsAgo ==
    (/\ s2 \notin {"none", "NoData", "Missing", "Gate1", "Gate2"}
     /\ notna(RollSum(hist, 200, Len(hist) - 5))) =>
        (s2 # "Gate3" <=> S2Sum(200) > RollSum(hist, 200, Len(hist) - 5))

(***************************************************************************)
(* Claims about the Golden Cross detector                                  *)
(***************************************************************************)
\* The clock of the evaluation is on the day of the latest bar.
GCOnLatestBarDay == gc.now \div 24 = Day(cal, Len(hist))

\* Calendar days from the day of bar i to the day of the evaluation.
GCAge(i) == (gc.now \div 24) - Day(cal, i)

\* C7 as claimed: when the indicator (50-SMA > 200-SMA) switches from 0 to 1
\* on bar N only, the detector run on the day of the latest bar returns True
\* with bar N, ..., N+6 as the latest bar, and False on a bar before N and on
\* bar N+8 or later.
C7_WindowInBars ==
    (gc.done /\ GCOnLatestBarDay) =>
        LET cross == CrossRows(hist)
        IN /\ \A N \in cross :
                 cross = {N} =>
                     /\ Len(hist) - N <= 6 => gc.res
                     /\ Len(hist) - N >= 8 => ~gc.res
           /\ cross = {} => ~gc.res

\* C7 amended: the window is counted in calendar days.  The detector returns
\* True when run at most 6 calendar days after the day of bar N, and False
\* when run before bar N or 8 or more calendar days after the day of bar N.
C7_WindowInCalendarDays ==
    gc.done =>
        LET cross == CrossRows(hist)
        IN /\ \A N \in cross :
                 cross = {N} =>
                     /\ GCAge(N) <= 6 => gc.res
                     /\ GCAge(N) >= 8 => ~gc.res
           /\ cross = {} => ~gc.res

\* A cross four bars back, over a weekend, still inside the window.
C7_Witness ==
    /\ gc.done /\ gc.res /\ cal = "weekdays"
    /\ CrossRows(hist) = {Len(hist) - 4}
    /\ GCAge(Len(hist) - 4) = 6

(***************************************************************************)
(* Claims about rising series                                              *)
(***************************************************************************)
StrictlyIncreasing(s) == \A i \in 2..Len(s) : s[i] > s[i - 1]

\* C8: on a strictly increasing close series of at least 200 bars, gates 1,
\* 2 and 5 of the trend template hold on the latest bar, check_trend_template
\* does not stop at any of them (nor at an undefined value), and
\* detect_golden_cross returns False.
C8_RisingPassesGates125NoCross ==
    (Len(hist) >= 200 /\ StrictlyIncreasing(hist)) =>
        /\ LET m == S2Measures
           IN S2GateOf(m, 1) /\ S2GateOf(m, 2) /\ S2GateOf(m, 5)
        /\ s2 \notin {"NoData", "Missing", "Gate1", "Gate2", "Gate5"}
        /\ gc.done => ~gc.res

\* A rising series with added bars, screened by both: the template passes
\* and no cross is reported.
C8_Witness ==
    /\ Len(hist) > 200 /\ StrictlyIncreasing(hist)
    /\ s2 = "Pass"
    /\ gc.done /\ ~gc.res

(***************************************************************************)
(* Claims about the Bora scan                                              *)
(***************************************************************************)
BoraDone(sym) == btask[sym] \in {"None", "Pick", "Error"}

\* A configuration error: an unknown trend method or a lookback that is not
\* a positive integer.
BoraConfigError ==
    bcfg.method \notin {"slope", "pct", "strict"} \/ bcfg.lookback <= 0

\* The EMA of the given span at bar i of closes s.
BoraEma(s, span, i) == EwmAt(ewm(s, span), s, i)

\* EMA21 trends up over its last cfg.lookback values under cfg.method; false
\* when there are fewer values.
BoraTrendUp(s, cfg) ==
    LET n == Len(s)
        L == cfg.lookback
        e == ewm(s, 21)
        D == e.vals[Len(e.vals)].den
        first == EwmScaled(e, s, n - L + 1)
        last == EwmScaled(e, s, n)
    IN /\ n >= L
       /\ CASE cfg.method = "slope" ->
                 LsqSlopeGt([x \in 1..L |-> EwmScaled(e, s, n - L + x)], D, cfg.slope_thresh)
            [] cfg.method = "pct" ->
                 100 * (last - first) * cfg.pct_thresh.den > cfg.pct_thresh.num * first
            [] cfg.method = "strict" ->
                 \A i \in (n - L + 2)..n :
                     FracGt(EwmAt(e, s, i).num, EwmAt(e, s, i).den,
                            EwmAt(e, s, i - 1).num, EwmAt(e, s, i - 1).den)

BoraConds(s, cfg) ==
    /\ Len(s) >= 200
    /\ 200 * s[Len(s)] > RollSum(s, 200, Len(s))
    /\ FracGt(BoraEma(s, 21, Len(s)).num, BoraEma(s, 21, Len(s)).den,
              BoraEma(s, 50, Len(s)).num, BoraEma(s, 50, Len(s)).den)
    /\ BoraTrendUp(s, cfg)

\* C9: with a documented method and a positive lookback, scan_single_symbol
\* returns the symbol exactly when at least 200 bars were fetched, the last
\* close is above the 200-SMA, the last EMA21 is above the last EMA50 and
\* EMA21 trends up over the last lookback values under the method (never
\* with fewer than lookback values); otherwise it returns None; the picks of
\* the scan are the symbols returned.
C9_BoraPickIffConditions ==
    \A sym \in DOMAIN btask :
        (BoraDone(sym) /\ ~BoraConfigError) =>
            /\ btask[sym] = "Pick" <=> BoraConds(bdata[sym], bcfg)
            /\ btask[sym] \in {"Pick", "None"}
            /\ bret.st = "returned" => (sym \in bret.picks <=> btask[sym] = "Pick")

\* A scan that returned its symbol under the percent-gain method.
C9_Witness ==
    /\ bret.st = "returned" /\ bret.picks = {"A"}
    /\ bcfg.method = "pct" /\ bcfg.lookback = 3
    /\ Len(bdata["A"]) > 200

\* C10: under a configuration error no fetch is issued for any symbol and
\* the call to scan_symbols does not return a result.
C10_ConfigErrorRejectedBeforeFetch ==
    BoraConfigError => (bfetched = {} /\ bret.st # "returned")

(***************************************************************************)
(* CANSLIM screen                                                          *)
(***************************************************************************)
\* The benchmark is not in an up-trend: fewer than 200 bars of SPY, or the
\* mean of its last 50 closes is not greater than the mean of its last 200.
CanMarketDown ==
    \/ Len(cin.market) < 200
    \/ LET n == Len(cin.market)
       IN 200 * SumRange(cin.market, n - 49, n) <= 50 * SumRange(cin.market, n - 199, n)

\* C11: whenever SPY's 50-SMA is not greater than its 200-SMA on the latest
\* bar, or fewer than 200 bars of SPY are available, canslim_screen returns
\* no row whatever the tickers' metrics are, and it issues no per-ticker
\* price or income-statement fetch.
C11_MarketGateBlocksAll ==
    (cret.st # "idle" /\ CanMarketDown) => (cret.rows = {} /\ cfetched = {})

\* canslim_screen returned under a 200-bar benchmark that is down, for a
\* ticker whose own metrics pass every test of the screen.
C11_Witness ==
    /\ cret.st = "returned"
    /\ CanMarketDown
    /\ Len(cin.market) >= 200
    /\ \E t \in DOMAIN ctask :
          screen_ticker_with_df_fast(cin.market, cin.df[t], cin.income[t],
                                     cin.holders[t]) = "Row"

\* The Net Income row of ticker t, <<>> when there is none.
CanNetIncome(t) == IF cin.income[t].kind = "Row" THEN cin.income[t].ni ELSE <<>>

\* Growth of a over b, in percent, is defined: both numbers are, and the
\* quotient is not 0/0.
CanGrowthDefined(a, b) == notna(a) /\ notna(b) /\ ~(a = 0 /\ b = 0)

\* (a - b)/|b| >= 25%; growth from zero is unbounded.
CanGrowthGe25(a, b) ==
    /\ CanGrowthDefined(a, b)
    /\ IF b = 0 THEN a > 0 ELSE 4 * (a - b) >= Abs(b)

CanQuarterlyDefined(t) ==
    LET ni == CanNetIncome(t)
    IN Len(ni) >= 2 /\ CanGrowthDefined(ni[1], ni[2])

CanQuarterlyOk(t) ==
    LET ni == CanNetIncome(t)
    IN Len(ni) >= 2 /\ CanGrowthGe25(ni[1], ni[2])

\* The year is the sum of the four latest columns; it is compared with the
\* four columns before them, or with the fifth (last) column alone when the
\* statement has fewer than eight.
CanAnnualPair(t) ==
    LET ni == CanNetIncome(t)
        z(i) == IF notna(ni[i]) THEN ni[i] ELSE 0
        year == z(1) + z(2) + z(3) + z(4)
    IN IF Len(ni) >= 8 THEN <<year, z(5) + z(6) + z(7) + z(8)>>
       ELSE <<year, ni[IF Len(ni) > 4 THEN 5 ELSE Len(ni)]>>

CanAnnualDefined(t) ==
    /\ Len(CanNetIncome(t)) >= 4
    /\ CanGrowthDefined(CanAnnualPair(t)[1], CanAnnualPair(t)[2])
    /\ (Len(CanNetIncome(t)) < 8 => CanAnnualPair(t)[2] # 0)

CanAnnualOk(t) ==
    ~CanAnnualDefined(t) \/ CanGrowthGe25(CanAnnualPair(t)[1], CanAnnualPair(t)[2])

CanNearHigh(t) ==
    LET c == cin.df[t].close
    IN \A i \in DOMAIN c : 10 * c[Len(c)] >= 9 * c[i]

CanVolumeUp15(t) ==
    LET v == cin.df[t].volume
        n == Len(v)
        recent == SumRange(v, n - 19, n)
        prior == SumRange(v, n - 49, n - 20)
    IN /\ n >= 50
       /\ IF prior = 0 THEN recent > 0
          ELSE 100 * (30 * recent - 20 * prior) >= 15 * 20 * prior

\* gain = close[-1]/close[-120] - 1 of the ticker and of SPY.
CanRsDefined(t) ==
    LET c == cin.df[t].close
        m == cin.market_df
    IN Len(c) >= 120 /\ Len(m) >= 120 /\ m[Len(m)] # m[Len(m) - 119]

\* gain_t / gain_m >= 1/2, cross-multiplied by the sign of gain_m.
CanRsOk(t) ==
    /\ CanRsDefined(t)
    /\ LET c == cin.df[t].close
           m == cin.market_df
           gt == c[Len(c)] - c[Len(c) - 119]
           gm == m[Len(m)] - m[Len(m) - 119]
           bt == c[Len(c) - 119]
           bm == m[Len(m) - 119]
       IN IF gm > 0 THEN 2 * gt * bm >= gm * bt ELSE 2 * gt * bm <= gm * bt

CanInst(t) == institutional_holders(cin.holders[t])

InstGatePasses ==
    /\ res # <<>>
    /\ res[1].total_value >= InstValueMin
    /\ res[1].reputable_count >= 2

\* The holder name matches a name of the list, case-insensitively.
InstMatches(name) ==
    \E r \in DOMAIN reputable_names :
        IsSubstr(LowerStr(reputable_names[r]), LowerStr(name))

\* The holders of the table whose name matches the list.
InstMatchingHolders ==
    { arg.rows[h].Holder : h \in { h \in DOMAIN arg.rows : InstMatches(arg.rows[h].Holder) } }

InstTotal == SumRange([h \in DOMAIN arg.rows |-> arg.rows[h].Value], 1, Len(arg.rows))

\* C13: the institutional gate passes only if the holdings sum to at least
\* $1B and at least two distinct holders each match a name of the list; one
\* matching holder never satisfies it.
C13_GateNeedsTwoMatchingHolders ==
    InstGatePasses =>
        /\ arg.kind = "Table"
        /\ InstTotal >= 1000
        /\ Cardinality(InstMatchingHolders) >= 2

(***************************************************************************)
(* Volume spike                                                            *)
(***************************************************************************)
\* The mean of the last 20 volumes is at least pct percent above the mean
\* of the last 50: S20/20 >= (1 + pct/100) * S50/50.
VolAboveFiftyBarAverage ==
    LET v == arg.df.volume
        n == Len(v)
    IN /\ n >= 50
       /\ LET s20 == SumRange(v, n - 19, n)
              s50 == SumRange(v, n - 49, n)
          IN 100 * (50 * s20 - 20 * s50) >= arg.pct * 20 * s50

\* C14: volume_spike(df, 20, 50, pct) is True exactly when the history has
\* at least 50 bars and the average volume of the last 20 bars is at least
\* pct percent above the average volume of the last 50 bars.
C14_SpikeAgainstFiftyBarAverage ==
    res # <<>> => (res[1] <=> VolAboveFiftyBarAverage)

(***************************************************************************)
(* LEAP option signals                                                     *)
(***************************************************************************)
\* The latest close is at least 1% below the previous close.
LeapDownOnePercent == 100 * (arg[Len(arg) - 1] - arg[Len(arg)]) >= arg[Len(arg) - 1]

\* The latest close is above the mean of the last 100 closes.
LeapAboveSma100 == 100 * arg[Len(arg)] > SumRange(arg, Len(arg) - 99, Len(arg))

\* The latest close is at least 0.8 times every close of the trailing 252 bars.
LeapNotBear ==
    \A i \in DOMAIN arg : i > Len(arg) - 252 => 10 * arg[Len(arg)] >= 8 * arg[i]

\* C15: get_qqq_leap_signal returns a signal exactly when at least 100 bars
\* are available, the latest close is down at least 1% from the previous
\* close, it is above the 100-day SMA, and it is at least 0.8 times the
\* highest close of the trailing 252 bars; otherwise it returns None.
C15_LeapSignalIffFourConditions ==
    res # <<>> =>
        (res[1] = "Signal" <=>
            (Len(arg) >= 100 /\ LeapDownOnePercent /\ LeapAboveSma100 /\ LeapNotBear))

\* The latest bar opens at least 2% below the previous bar's close:
\* open <= 0.98 * prev_close.
GapDownTwoPercent ==
    LET n == Len(arg)
    IN /\ n >= 2
       /\ arg[n].open # NaN
       /\ 100 * arg[n].open <= 98 * arg[n - 1].close

\* C16: get_qqq_gap_down_leap_signal returns a signal exactly when at least
\* two bars are available and the latest open is at least 2% below the
\* previous close; otherwise it returns None.
C16_GapSignalIffTwoPercentGap ==
    res # <<>> => (res[1] = "Signal" <=> GapDownTwoPercent)

\* A signal returned for a gap of exactly 2%.
C16_Witness ==
    /\ res = <<"Signal">>
    /\ Len(arg) >= 2
    /\ 100 * arg[Len(arg)].open = 98 * arg[Len(arg) - 1].close

(***************************************************************************)
(* Failures of a fetch in the batch scans                                  *)
(***************************************************************************)
BatchFailed(t) == qresp[t].outcome # "ok"

\* The verdict of the scan on the frame of an instrument taken alone.
BatchVerdict(t) ==
    LET c == qresp[t].df.close
    IN IF qkind = "bora" THEN scan_single_symbol(c, BoraDefaults) = "Pick"
       ELSE IF qkind = "golden" THEN detect_golden_cross(c, "daily", BatchNow(c))
       ELSE IF qkind = "stage2" THEN check_trend_template(c) = "Pass"
       ELSE screen_ticker_with_df_fast(BatchMarket, qresp[t].df, BatchIncome,
                                       BatchHolders) = "Row"

\* C17: in every batch scan a failed fetch for one instrument never aborts
\* the batch: no exception leaves a task or the scan, the failing instrument
\* is absent from the result, and every other instrument is in the result
\* exactly when its own frame passes, as if the failing one were not listed.
C17_FailedFetchIsolated ==
    /\ qret.st # "raised"
    /\ \A t \in DOMAIN qtask : qtask[t] # "Error"
    /\ \A t \in DOMAIN qtask : BatchFailed(t) => t \notin qret.picks
    /\ qret.st = "returned" =>
          \A t \in DOMAIN qtask : ~BatchFailed(t) => (t \in qret.picks <=> BatchVerdict(t))

\* A scan returned one instrument although the fetch of the other one timed
\* out or raised.
C17_Witness ==
    /\ qret.st = "returned"
    /\ qret.picks # {}
    /\ \E t \in DOMAIN qtask : qresp[t].outcome \in {"timeout", "raise"}

\* The instrument was skipped: its fetch failed or answered without bars,
\* or its history is too short to be screened.
BatchSkipped(t) == BatchFailed(t) \/ Len(qresp[t].df.close) < 200

\* The instruments the returned value has an entry for: the scans return
\* the list [r for r in results if r].
BatchEntries == qret.picks

\* C18: the result of a batch run holds, next to the successful verdicts,
\* one entry for every skipped instrument, giving the reason of the skip.
C18_SkippedInstrumentsReported ==
    qret.st = "returned" =>
        \A t \in DOMAIN qtask : BatchSkipped(t) => t \in BatchEntries

(***************************************************************************)
(* Expiry of the cache entries                                             *)
(***************************************************************************)
\* The cache the call works on.
KCache == IF kcall.fn = "polygon" THEN polygon_cache ELSE finance_cache

\* The entry the call found for t, and its age when the call read the clock.
KHad(t) == t \in DOMAIN kcall.before
KAge(t) == kcall.now - kcall.before[t].ts

\* The entry of t was written during the call, with what the call returns.
KReplaced(t) ==
    /\ KCache[t].ts >= kcall.now
    /\ KCache[t] # kcall.before[t]
    /\ kcall.results[t] = KCache[t].data

\* The cached value was returned and the fetch function was not called.
KServedFromCache(t) ==
    /\ t \notin kcall.fetched
    /\ kcall.results[t] = kcall.before[t].data
    /\ KCache[t] = kcall.before[t]

\* C19 as stated: an entry of age 600 s or more is never returned, it is
\* fetched again and replaced; an entry younger than 600 s is returned
\* without a call of the fetch function.
C19_ExpiredRefetchedAndReplaced ==
    kcall.st = "done" =>
        \A t \in kcall.tickers :
            KHad(t) =>
                IF KAge(t) >= 600
                THEN t \in kcall.fetched /\ KReplaced(t)
                ELSE KServedFromCache(t)

\* C19: an entry of age 600 s or more is never returned: the fetch function
\* is called, and the entry is replaced by what it returns unless the fetch
\* of fetch_yfinance_income_stmt raises, in which case None is returned and
\* the old entry stays; an entry younger than 600 s is returned without a
\* call of the fetch function.
C19_ExpiredRefetched ==
    kcall.st = "done" =>
        \A t \in kcall.tickers :
            KHad(t) =>
                IF KAge(t) >= 600
                THEN /\ t \in kcall.fetched
                     /\ IF kcall.raised
                        THEN kcall.results[t] = NoneVal /\ KCache[t] = kcall.before[t]
                        ELSE KReplaced(t)
                ELSE KServedFromCache(t)

\* A call found an entry exactly 600 s old and replaced it, next to an entry
\* 599 s old or younger that it returned.
C19_Witness ==
    /\ kcall.st = "done"
    /\ \E t \in kcall.tickers :
          KHad(t) /\ KAge(t) = 600 /\ t \in kcall.fetched /\ KReplaced(t)

(***************************************************************************)
(* Claims about the income statements fetched in worker threads            *)
(***************************************************************************)
ThrDone(t) == t \in DOMAIN thr /\ thr[t].pc = "done"

\* The value is a statement yfinance returned for ticker t.
OwnStatement(t, v) == v # NoneVal /\ v.of = t

\* What finance_cache must hold for t while the batch runs: what thread t
\* stored once it has stored, else what was there when the batch was called.
ThrEntryKept(t) ==
    IF t \in DOMAIN thr /\ thr[t].wrote # <<>>
    THEN t \in DOMAIN finance_cache /\ finance_cache[t] = thr[t].wrote[1]
    ELSE IF t \in DOMAIN tmain.before
         THEN t \in DOMAIN finance_cache /\ finance_cache[t] = tmain.before[t]
         ELSE t \notin DOMAIN finance_cache

ThrNothingLost == tmain.st # "idle" => \A t \in ThrTickers : ThrEntryKept(t)

\* C20 as stated: under every interleaving of the worker threads of
\* batch_fetch_yfinance_income_stmts for distinct tickers, every finished
\* call returned the statement of its own ticker and finance_cache[t] then
\* holds t's own (value, timestamp) pair, no entry is lost or overwritten by
\* a thread working on another key, and the returned dict has exactly one
\* entry per requested ticker.
C20_ThreadsIsolated ==
    /\ ThrNothingLost
    /\ \A t \in DOMAIN thr :
          ThrDone(t) =>
             /\ OwnStatement(t, thr[t].ret)
             /\ t \in DOMAIN finance_cache
             /\ OwnStatement(t, finance_cache[t].data)
    /\ tmain.st = "returned" =>
          /\ DOMAIN tmain.results = tmain.tickers
          /\ \A t \in tmain.tickers : OwnStatement(t, tmain.results[t])

\* C20, amended: under every interleaving, a finished call whose yfinance
\* request did not raise returned the statement of its own ticker and
\* finance_cache[t] holds t's own (value, timestamp) pair; a call whose
\* request raised returned None and left finance_cache[t] as it was; no
\* entry is lost or overwritten by a thread working on another key; the
\* returned dict has exactly one entry per requested ticker, holding what
\* the ticker's call returned.
C20_ThreadsIsolatedUnlessRaised ==
    /\ ThrNothingLost
    /\ \A t \in DOMAIN thr :
          ThrDone(t) =>
             IF thr[t].raised
             THEN /\ thr[t].ret = NoneVal
                  /\ thr[t].wrote = <<>>
             ELSE /\ OwnStatement(t, thr[t].ret)
                  /\ t \in DOMAIN finance_cache
                  /\ OwnStatement(t, finance_cache[t].data)
    /\ tmain.st = "returned" =>
          /\ DOMAIN tmain.results = tmain.tickers
          /\ \A t \in tmain.tickers : tmain.results[t] = thr[t].ret

\* Both threads ran, both stored an entry and the dict was returned.
C20_Witness ==
    /\ tmain.st = "returned"
    /\ tmain.tickers = ThrTickers
    /\ \A t \in ThrTickers : thr[t].wrote # <<>> /\ ~thr[t].raised

(***************************************************************************)
(* Claims about the verdict store                                          *)
(***************************************************************************)
\* The runs of a log that committed on the day d, oldest first.
RunsOn(log, d) == SelectSeq(log, LAMBDA r : ~r.raised /\ r.stamp[1].date = d)

\* A read endpoint has answered.
HasRead == reply.screen # "none"

\* C21: a read endpoint returns exactly the verdicts of the most recent run
\* of its screen today, all rows of that run and no row of an earlier run,
\* and an error object when no verdicts exist for today.
C21_ReadReturnsLatestRun ==
    HasRead =>
       LET runs == RunsOn(reply.log, reply.today)
           stored == UNION {runs[i].rows : i \in 1..Len(runs)}
       IN IF stored = {}
          THEN reply.error
          ELSE ~reply.error /\ reply.rows = runs[Len(runs)].rows

\* The rows a run stored carry its results, one row each, and its stamp.
RunStoredAll(r) ==
    IF r.raised
    THEN r.rows = {}
    ELSE /\ {x.symbol : x \in r.rows} = r.results
         /\ Cardinality(r.rows) = Cardinality(r.results)
         /\ \A x \in r.rows :
               x.data_date = r.stamp[1].date /\ x.data_time = r.stamp[1].time

\* C30: every run_and_store_* run stamps all rows it inserts with one and
\* the same (data_date, data_time) pair and commits them in one transaction:
\* at any time a table holds, for every run that ended, all of its verdict
\* rows or - when its screening or its commit raised - none, no row of a run
\* in progress, and every row earlier runs stored, unchanged.
C30_RunsStoreAllOrNothing ==
    \A k \in Screens :
       /\ tables[k] = UNION {runlog[k][i].rows : i \in 1..Len(runlog[k])}
       /\ \A i \in 1..Len(runlog[k]) : RunStoredAll(runlog[k][i])

\* A run stored two rows, and a later run of the screen raised.
C30_Witness ==
    \E k \in Screens :
       /\ Len(runlog[k]) = 2
       /\ ~runlog[k][1].raised /\ Cardinality(runlog[k][1].rows) = 2
       /\ runlog[k][2].raised
       /\ tables[k] = runlog[k][1].rows

(***************************************************************************)
(* Claims about repeated evaluation                                        *)
(***************************************************************************)
\* C22: evaluating a screen twice in a row on the same series object at the
\* same evaluation date yields the same verdict both times: the second call
\* of detect_golden_cross(df) returns what the first call on that df
\* returned.
C22_SecondCallAgrees == Len(res) = 2 => res[2] = res[1]

(***************************************************************************)
(* Claims about calculate_rsi                                              *)
(***************************************************************************)
\* The sums of the gains and of the losses over the last RsiWindow bars.
RsiGain == GainSum(arg, Len(arg) - RsiWindow + 1, Len(arg))
RsiLoss == LossSum(arg, Len(arg) - RsiWindow + 1, Len(arg))

RsiTaken == res # <<>> /\ Len(arg) >= RsiWindow

\* C23: calculate_rsi (rolling mean, window 14) does not fail on a zero
\* average loss: with average loss 0 and a positive average gain the RSI is
\* exactly 100; with both 0 the RSI is undefined and the Stage 2 screen
\* returns fail; whenever it is defined the RSI lies in [0, 100].
C23_RsiZeroLoss ==
    RsiTaken =>
       LET rsi == res[1].rsi
       IN /\ (RsiLoss = 0 /\ RsiGain > 0) => rsi.num = 100 * rsi.den
          /\ (RsiLoss = 0 /\ RsiGain = 0) =>
                rsi.num = NaN /\ res[1].verdict = "Missing"
          /\ rsi.num # NaN => 0 <= rsi.num /\ rsi.num <= 100 * rsi.den /\ rsi.den > 0

\* The RSI was taken of 200 constant closes and more: the averages are
\* defined, the RSI is not, and the screen failed on it.
C23_Witness ==
    /\ RsiTaken
    /\ Len(arg) >= 200
    /\ RsiLoss = 0 /\ RsiGain = 0
    /\ res[1].rsi.num = NaN
    /\ res[1].verdict = "Missing"

(***************************************************************************)
(* Claims about the fan-out of the scans                                   *)
(***************************************************************************)
\* C24: golden_cross_strategy limits its fan-out: at no point are more than
\* 10 screen_golden_cross calls in flight at the same time.
C24_AtMostTenInFlight == Cardinality(InFlight) <= SemaphoreLimit

\* The group of the loop a ticker of uncached is fetched in, counted from 0.
GrpOf(t) ==
    LET p == CHOOSE j \in DOMAIN pcall.uncached : pcall.uncached[j] = t
    IN (p - 1) \div pcall.batch_size

GrpFetched == {t \in DOMAIN pcall.flight : pcall.flight[t].st # "new"}

\* The fetched tickers whose group was gathered and stored.
GrpStored ==
    {t \in DOMAIN pcall.flight :
        IF pcall.st = "gather" THEN GrpOf(t) * pcall.batch_size < pcall.i
        ELSE pcall.flight[t].st = "done"}

GrpOwn(t, v) == v = NoneVal \/ v.of = t

\* C25: fetch_polygon_data_batch fetches the uncached tickers in consecutive
\* groups of at most batch_size: at most batch_size fetches are in flight at
\* once, no fetch of a later group starts before every fetch of the previous
\* groups has completed, each fetched result is stored in the cache under
\* its own ticker, and the returned dict has an entry for every requested
\* ticker, cached or fetched.
C25_GroupsOfBatchSize ==
    /\ Cardinality(GrpInFlight) <= pcall.batch_size
    /\ \A t \in GrpFetched, u \in DOMAIN pcall.flight :
          GrpOf(u) < GrpOf(t) => pcall.flight[u].st = "done"
    /\ \A t \in GrpStored :
          /\ t \in DOMAIN polygon_cache
          /\ polygon_cache[t].data = pcall.flight[t].data
          /\ GrpOwn(t, polygon_cache[t].data)
          /\ pcall.results[t] = pcall.flight[t].data
    /\ \A t \in DOMAIN polygon_cache \ DOMAIN pcall.flight :
          pcall.st # "idle" => polygon_cache[t] = pcall.before[t]
    /\ pcall.st = "returned" =>
          /\ DOMAIN pcall.results = Range(pcall.tickers)
          /\ \A t \in Range(pcall.tickers) \ DOMAIN pcall.flight :
                pcall.results[t] = pcall.before[t].data

\* A call with batch_size 5 returned after it fetched six tickers in two
\* groups, a frame for some and None for others.
C25_Witness ==
    /\ pcall.st = "returned"
    /\ pcall.batch_size = 5
    /\ Len(pcall.uncached) = 6
    /\ pcall.i = 10
    /\ \E t, u \in DOMAIN pcall.flight :
          pcall.flight[t].data = NoneVal /\ pcall.flight[u].data # NoneVal


(***************************************************************************)
(* Claims about trending_stocks.py                                         *)
(***************************************************************************)
TrendRows(trend_type) ==
    {r \in trending_stocks :
        r.trend_type \in {trend_type, Uptrend(trend_type), Downtrend(trend_type)}}
StoredRuns(trend_type) ==
    SelectSeq(trend.log, LAMBDA c : c.stored /\ c.trend_type = trend_type)

\* C26: for each trend type, the table holds only the rows of the latest
\* analyze_trends call of that type that produced results, at most ten
\* uptrend and ten downtrend rows; the rows of earlier calls are gone.
C26_OnlyLatestRunRows ==
    \A trend_type \in TrendTypes :
        LET runs == StoredRuns(trend_type)
        IN /\ runs = <<>> => TrendRows(trend_type) = {}
           /\ runs # <<>> =>
                 \A r \in TrendRows(trend_type) : r.analysis_date = runs[Len(runs)].date
           /\ Cardinality({r \in trending_stocks :
                               r.trend_type = Uptrend(trend_type)}) <= TopRows
           /\ Cardinality({r \in trending_stocks :
                               r.trend_type = Downtrend(trend_type)}) <= TopRows

\* C27: download_stock_data makes at most Retries attempts; it returns the
\* data of the first attempt with a Close column and makes no attempt after
\* it; an exception counts as a failed attempt; after Retries failed attempts
\* it returns None, analyze_trends adds the ticker to failed_tickers and goes
\* on with the next ticker; a started loop pass always ends.
C27_DownloadEnds ==
    /\ [](Len(trend.made) < Retries /\ "close" \notin Range(trend.made))
    /\ [](Len(trend.last) = 1 =>
            LET c == trend.last[1]
            IN /\ Len(c.made) \in 1..Retries
               /\ \A k \in 1..(Len(c.made) - 1) : c.made[k] # "close"
               /\ c.ret = "data" <=> c.made[Len(c.made)] = "close"
               /\ c.ret = "None" <=> (Len(c.made) = Retries /\ "close" \notin Range(c.made))
               /\ c.ret = "None" =>
                     /\ trend.failed_tickers # <<>>
                     /\ trend.failed_tickers[Len(trend.failed_tickers)] = c.ticker
                     /\ c.ticker \notin trend.trending
               /\ trend.i = TrendIndex(c.ticker) + 1)
    /\ (trend.made # <<>>) ~> (trend.made = <<>>)
    /\ (trend.st = "loop") ~> (trend.st = "idle")

\* Three attempts failed, one of them by an exception, the call returned
\* None and the loop has a next ticker to go on with.
C27_Witness ==
    /\ trend.st = "loop"
    /\ Len(trend.last) = 1
    /\ trend.last[1].ret = "None"
    /\ {"raise", "noclose"} \subseteq Range(trend.last[1].made)
    /\ trend.i <= Len(sp500_tickers)


(***************************************************************************)
(* Claims about the ticker list cache                                      *)
(***************************************************************************)
Younger(snap) == snap.cache # <<>> /\ snap.now < snap.cache[1].expires
Gone(snap) == snap.cache = <<>> \/ snap.now > snap.cache[1].expires

SpReturned ==
    spcall.st = "returned" =>
        LET c == spcall
            k == c.check[1]
        IN /\ (~c.with_sector /\ Younger(k)) => c.fetched = <<>>
           /\ (c.read # <<>> /\ Younger(c.read[1])) =>
                 /\ c.raised = ""
                 /\ c.ret = <<c.read[1].cache[1].value>>
           /\ (~c.with_sector /\ Gone(k)) =>
                 /\ c.fetched # <<>>
                 /\ c.raised = "" => c.ret = <<Fetched("tickers", c.fetched[1].at)>>
           /\ c.with_sector =>
                 /\ c.fetched # <<>>
                 /\ c.read = <<>>
                 /\ c.raised = "" => c.ret = <<Fetched("df", c.fetched[1].at)>>

SpStep ==
    /\ (spcall.st = "store" /\ spcall'.st = "returned") =>
          sp500_cache' = <<[value |-> spcall'.ret[1], expires |-> timer + SP500_TTL]>>
    /\ (spcall' # spcall /\ spcall'.with_sector) => sp500_cache' = sp500_cache
    /\ (spcall' # spcall /\ spcall'.st # "returned") => sp500_cache' = sp500_cache
    /\ (spcall' # spcall /\ spcall'.fetched = <<>>) => sp500_cache' = sp500_cache

\* C28: a call of get_sp500_tickers() that finds the entry younger than 3600 s
\* does not fetch, and returns the cached list when the entry is still there
\* and younger at the read; a call that finds no entry (after
\* clear_sp500_cache) or an entry older than 3600 s fetches, returns the
\* fetched list and stores it for the next 3600 s; a call with
\* with_sector=True always fetches and never changes the cache.
C28_TickerListCachedOneHour == []SpReturned /\ [][SpStep]_vars

\* The second call came 3599 s after the first had stored the list, and
\* returned that list without a fetch.
C28_Witness ==
    /\ spcall.st = "returned"
    /\ spcall.n >= 2
    /\ ~spcall.with_sector
    /\ spcall.fetched = <<>>
    /\ spcall.ret # <<>>
    /\ spcall.check[1].now = spcall.ret[1].at + SP500_TTL - 1


(***************************************************************************)
(* Claims about failed fetches and the caches                              *)
(***************************************************************************)
KDone ==
    kcall.st = "done" =>
        /\ kcall.fn = "polygon" =>
              \A t \in kcall.tickers :
                  /\ t \in kcall.fetched =>
                        /\ t \in DOMAIN polygon_cache
                        /\ polygon_cache[t].data = kcall.results[t]
                        /\ polygon_cache[t].ts >= kcall.now
                  /\ (KHad(t) /\ kcall.before[t].data = NoneVal /\ KAge(t) < CACHE_TTL) =>
                        /\ t \notin kcall.fetched
                        /\ kcall.results[t] = NoneVal
                        /\ polygon_cache[t] = kcall.before[t]
        /\ (kcall.fn = "yfinance" /\ kcall.raised) =>
              /\ finance_cache = kcall.before
              /\ \A t \in kcall.tickers : kcall.results[t] = NoneVal

KNoFailureKept == \A t \in DOMAIN finance_cache : finance_cache[t].data # NoneVal

\* The call that follows a fetch_yfinance_income_stmt call that raised.
KRetry ==
    (/\ kcall.fn = "yfinance" /\ kcall.st = "done" /\ kcall.raised
     /\ kcall'.n = kcall.n + 1 /\ kcall'.fn = "yfinance" /\ kcall'.tickers = kcall.tickers)
        => kcall'.fetched = kcall'.tickers

\* C29: fetch_polygon_data_batch stores the result of every fetch, None
\* included, and a call made less than 600 s after a None was stored returns
\* None for that ticker without fetching; fetch_yfinance_income_stmt stores
\* nothing when the fetch raises, and the call that follows fetches again.
C29_FailuresCachedByPolygonOnly == [](KDone /\ KNoFailureKept) /\ [][KRetry]_vars

\* A batch call made 599 s after a failed fetch was stored returned None for
\* the ticker without fetching.
C29_Witness ==
    /\ kcall.st = "done" /\ kcall.fn = "polygon"
    /\ \E t \in kcall.tickers :
          /\ KHad(t) /\ kcall.before[t].data = NoneVal
          /\ KAge(t) = CACHE_TTL - 1
          /\ t \notin kcall.fetched
          /\ kcall.results[t] = NoneVal

====
